---- MODULE Spec2Model ----
(***************************************************************************)
(* Model of the crawl engine of website-crawler:                           *)
(*   - URLFrontier (app/frontier.py): heapq priority queue, visited and    *)
(*     enqueued hash sets, URL normalisation, domain allow-list;           *)
(*   - PageFetcher (app/fetcher.py): rate limit, one-slot semaphore,       *)
(*     retry loop with backoff, dynamic fallback;                          *)
(*   - RobotsChecker (app/robots.py): per-domain robots.txt cache;         *)
(*   - ExtractorPipeline (app/extractors/__init__.py);                     *)
(*   - Crawler (app/crawler.py) and JobManager.run_async: the crawl loop;  *)
(*   - the API's job registry (app/api.py): submit, delete, _run_crawl.    *)
(* Spec       : a URLFrontier driven by arbitrary add_url / get_next /     *)
(*              mark_visited calls.                                        *)
(* FetchSpec  : one PageFetcher called by a single task (the crawl loop).  *)
(* ConcSpec   : one PageFetcher called by several concurrent tasks.        *)
(* RobotsSpec : a RobotsChecker asked about URLs in any order.             *)
(* CrawlSpec  : one job crawling a small site; CrawlFairSpec adds the      *)
(*              fairness of the event loop.                                *)
(* NormSpec   : normalize_url applied, through the frontier, to URLs put   *)
(*              together from the spellings it rewrites.                   *)
(* LinkSpec   : LinkExtractor.extract applied to documents of anchors.     *)
(* TextSpec   : TextExtractor._get_headings applied to documents.          *)
(* ImageSpec  : one ImageExtractor run on several pages, its downloads     *)
(*              ending in any order.                                       *)
(* E2ESpec    : the first turns of a job on a site with images and links.  *)
(* JobsSpec   : two jobs of one process, next to each job run alone.       *)
(* ApiSpec    : the job registry of the API under submits, deletes and     *)
(*              background tasks; ApiFairSpec adds the event loop's        *)
(*              fairness.                                                  *)
(* TwinSpec   : one job on a site that links to a page under two           *)
(*              spellings.                                                 *)
(* DeepSpec   : one job on a site three levels deep.                       *)
(***************************************************************************)
EXTENDS Integers, Sequences, FiniteSets, TLC

\* ------------------------------------------------------------------------
\* Configuration of the modelled job (CrawlConfig)
\* ------------------------------------------------------------------------

VARIABLE config     \* the CrawlConfig of the job

\* CrawlConfig.max_depth, handed to URLFrontier.__init__
max_depth == config.max_depth

\* CrawlConfig.allowed_domains as configured (before URLFrontier lowercases it)
allowed_domains_cfg == { <<"Example", "com">> }

\* depths offered to add_url: 0 .. max_depth + DepthSlack
DepthSlack == 1

\* number of frontier calls explored in one run
MaxOps == 5

Depths == 0 .. (max_depth + DepthSlack)

\* ------------------------------------------------------------------------
\* URLs.  A URL string is modelled by the components urlparse splits it
\* into: scheme (urlparse lowercases it), netloc as its dot-separated
\* labels, path as its characters, query as its key=value pairs in order,
\* fragment.
\* ------------------------------------------------------------------------

NoUrl == [scheme |-> "", netloc |-> <<>>, path |-> <<>>, query |-> <<>>, fragment |-> ""]

Url(s, n, p, q, f) == [scheme |-> s, netloc |-> n, path |-> p, query |-> q, fragment |-> f]

\* the URLs offered to the frontier
SampleUrls ==
  { Url("http", <<"example", "com">>, <<"/", "a">>, <<>>, ""),
    Url("http", <<"Example", "COM">>, <<"/", "/", "a">>, << <<"utm_source", "x">> >>, "top"),
    Url("https", <<"example", "com">>, <<"/", "b">>, << <<"id", "5">> >>, ""),
    Url("http", <<"WWW", "example", "com">>, <<>>, <<>>, ""),
    Url("http", <<"other", "com">>, <<"/", "a">>, <<>>, ""),
    Url("ftp", <<"example", "com">>, <<"/", "a">>, <<>>, "") }

\* the CrawlConfig of the job the specifications run, where they do not say
\* otherwise: a small site crawled two levels deep, image options as their
\* defaults
DefaultConfig ==
  [start_url |-> Url("http", <<"example", "com">>, <<"/", "a">>, <<>>, ""),
   max_depth |-> 2, page_limit |-> 2,
   min_image_size |-> 100, download_images |-> TRUE]

\* a job whose seed page links to one page under two spellings
TwinConfig ==
  [start_url |-> [scheme |-> "http", netloc |-> <<"example", "com">>, path |-> <<"/", "t">>,
                  query |-> <<>>, fragment |-> ""],
   max_depth |-> 1, page_limit |-> 5, min_image_size |-> 100, download_images |-> TRUE]

\* a job on a site three levels deep
DeepConfig ==
  [start_url |-> [scheme |-> "http", netloc |-> <<"example", "com">>, path |-> <<"/", "r">>,
                  query |-> <<>>, fragment |-> ""],
   max_depth |-> 2, page_limit |-> 5, min_image_size |-> 100, download_images |-> TRUE]

\* the CrawlConfig of the end-to-end scenario: https://example.com/ crawled
\* one level deep, up to five pages
E2EConfig ==
  [start_url |-> Url("https", <<"example", "com">>, <<"/">>, <<>>, ""),
   max_depth |-> 1, page_limit |-> 5,
   min_image_size |-> 100, download_images |-> TRUE]

\* str.lower() on one label of a host name
LowerLabel(l) ==
  CASE l = "Example" -> "example"
    [] l = "COM" -> "com"
    [] l = "WWW" -> "www"
    [] OTHER -> l

\* str.lower() on a netloc
Lower(n) == [i \in DOMAIN n |-> LowerLabel(n[i])]

\* re.sub(r"/+", "/", path): runs of slashes collapse to one
RECURSIVE CollapseSlashes(_)
CollapseSlashes(p) ==
  IF Len(p) <= 1 THEN p
  ELSE IF p[1] = "/" /\ p[2] = "/" THEN CollapseSlashes(Tail(p))
  ELSE <<p[1]>> \o CollapseSlashes(Tail(p))

\* _STRIP_PARAMS.match(k): the key starts, case-insensitively, with
\* utm_ | fbclid | gclid | mc_ | ref | source | campaign
\* (tabulated on the keys that occur in SampleUrls)
StripParamsMatch(k) == k \in {"utm_source", "UTM_medium", "fbclid", "Ref", "referrer", "source"}

\* keys of a query in order of first occurrence (dict insertion order of parse_qs)
RECURSIVE QueryKeys(_)
QueryKeys(q) ==
  IF q = <<>> THEN <<>>
  ELSE LET rest == SelectSeq(Tail(q), LAMBDA kv : kv[1] # Head(q)[1])
       IN  <<Head(q)[1]>> \o QueryKeys(rest)

\* parse_qs(query, keep_blank_values=True) followed by the filter on keys and
\* urlencode(filtered, doseq=True): per kept key, in first-occurrence order,
\* all of its values in order
RECURSIVE EncodeKeys(_, _)
EncodeKeys(ks, q) ==
  IF ks = <<>> THEN <<>>
  ELSE LET k == Head(ks)
       IN  (IF StripParamsMatch(k) THEN <<>>
            ELSE SelectSeq(q, LAMBDA kv : kv[1] = k))
           \o EncodeKeys(Tail(ks), q)

FilterQuery(q) == EncodeKeys(QueryKeys(q), q)

\* str.rstrip() on the characters of a path
RECURSIVE RStrip(_)
RStrip(p) ==
  IF p # <<>> /\ p[Len(p)] = " " THEN RStrip(SubSeq(p, 1, Len(p) - 1)) ELSE p

\* urlparse(url.strip()): the whitespace at the end of the string is removed
\* before the string is split; it belongs to the path when the string has
\* neither a query nor a fragment
UrlparseStrip(u) ==
  IF u.query = <<>> /\ u.fragment = "" THEN [u EXCEPT !.path = RStrip(@)] ELSE u

\* URLFrontier.normalize_url; NoUrl stands for None
normalize_url(u) ==
  LET parsed == UrlparseStrip(u)
  IN  IF parsed.scheme \notin {"http", "https"} THEN NoUrl
      ELSE IF parsed.netloc = <<>> THEN NoUrl
      ELSE Url(parsed.scheme,
               Lower(parsed.netloc),
               CollapseSlashes(IF parsed.path = <<>> THEN <<"/">> ELSE parsed.path),
               FilterQuery(parsed.query),
               "")

\* URLFrontier._hash: sha256 hex digest, injective on the modelled URLs
Hash(u) == <<"sha256", u>>

\* self.allowed_domains as URLFrontier.__init__ builds it
allowed_domains == { Lower(d) : d \in allowed_domains_cfg }

\* re.sub(r"^www\.", "", domain)
StripWww(n) == IF Len(n) > 1 /\ n[1] = "www" THEN Tail(n) ELSE n

\* variant of _domain_allowed that compares only the top-level label
domain_allowed_suffix(u) ==
  LET domain == Lower(u.netloc)
  IN  \E d \in allowed_domains : d[Len(d)] = domain[Len(domain)]

\* URLFrontier._domain_allowed
domain_allowed(u) ==
  LET domain == Lower(u.netloc)
      bare   == StripWww(domain)
  IN  domain \in allowed_domains \/ bare \in allowed_domains

\* ------------------------------------------------------------------------
\* heapq on a list of QueueEntry (0-based positions of the Python list are
\* kept; position i is element i+1 of the sequence)
\* ------------------------------------------------------------------------

QueueEntry(d, u) == [depth |-> d, url |-> u]

NoEntry == QueueEntry(-1, NoUrl)

\* variant of QueueEntry.__lt__ with the comparison reversed
EntryGreater(x, y) == x.depth > y.depth

\* QueueEntry.__lt__ : dataclass(order=True), url has compare=False
EntryLess(x, y) == x.depth < y.depth

At(h, i) == h[i + 1]

Put(h, i, x) == [h EXCEPT ![i + 1] = x]

\* heapq._siftdown(heap, startpos, pos) with newitem already taken out
RECURSIVE SiftDownLoop(_, _, _, _)
SiftDownLoop(h, startpos, pos, newitem) ==
  IF pos > startpos
  THEN LET parentpos == (pos - 1) \div 2
           parent    == At(h, parentpos)
       IN  IF EntryLess(newitem, parent)
           THEN SiftDownLoop(Put(h, pos, parent), startpos, parentpos, newitem)
           ELSE Put(h, pos, newitem)
  ELSE Put(h, pos, newitem)

siftdown(h, startpos, pos) == SiftDownLoop(h, startpos, pos, At(h, pos))

\* heapq._siftup(heap, pos): bubble the smaller child up to a leaf, then
\* sift the new item down from there
RECURSIVE SiftUpLoop(_, _, _, _)
SiftUpLoop(h, startpos, pos, newitem) ==
  LET endpos   == Len(h)
      childpos == 2 * pos + 1
  IN  IF childpos < endpos
      THEN LET rightpos == childpos + 1
               c == IF rightpos < endpos /\ ~EntryLess(At(h, childpos), At(h, rightpos))
                    THEN rightpos ELSE childpos
           IN  SiftUpLoop(Put(h, pos, At(h, c)), startpos, c, newitem)
      ELSE siftdown(Put(h, pos, newitem), startpos, pos)

siftup(h, pos) == SiftUpLoop(h, pos, pos, At(h, pos))

\* heapq.heappush
heappush(h, item) == siftdown(Append(h, item), 0, Len(h))

\* heapq.heappop: the returned item
heappop_item(h) == IF Len(h) = 1 THEN h[1] ELSE At(h, 0)

\* heapq.heappop: the heap left behind
heappop_rest(h) ==
  LET lastelt == h[Len(h)]
      rest    == SubSeq(h, 1, Len(h) - 1)
  IN  IF rest = <<>> THEN rest ELSE siftup(Put(rest, 0, lastelt), 0)

\* ------------------------------------------------------------------------
\* State
\* ------------------------------------------------------------------------
VARIABLES
  queue,      \* URLFrontier._queue (the heap list)
  visited,    \* URLFrontier._visited
  enqueued,   \* URLFrontier._enqueued
  log,        \* history: accepted add_url calls and entries get_next returned
  marked,     \* history: raw URLs mark_visited was called with
  last,       \* history: the last call and what it returned
  nops,       \* history: number of calls made so far
  now,                \* time.monotonic(), in ticks
  last_request_time,  \* PageFetcher._last_request_time
  sem,                \* PageFetcher._semaphore: free slots
  pc,                 \* per calling task: where it is inside fetch()
  attempt,            \* per task: loop variable of _fetch_with_retries
  last_error,         \* per task: local last_error of _fetch_with_retries
  wake,               \* per task: time at which its asyncio.sleep ends
  result,             \* per task: local result of fetch() (what _fetch_with_retries returned)
  returned,           \* per task: what the last finished fetch() returned
  raised,             \* history, per task: error texts the static attempts of the call raised
  got,                \* history, per task: response a static attempt of the call returned
  dynamic,            \* history, per task: results of the dynamic re-fetches of the call
  starts,             \* history: start times of the last two static GETs
  calls,              \* history: number of fetch() calls started
  robots_cache,       \* RobotsChecker._cache: domain -> parser, or the None sentinel
  robots_delays,      \* RobotsChecker._delays: domain -> delay or None
  rpc,                \* the RobotsChecker call waiting for its robots.txt GET, if any
  requests,           \* history: robots.txt GETs sent, in order, by domain
  rlast,              \* history: the last RobotsChecker call and how it ended
  cpc,                \* where Crawler.crawl / _process_url stands
  cur,                \* the frontier entry being processed (url, depth)
  pages_crawled,      \* local pages_crawled of Crawler.crawl
  errors,             \* DataStructurer._errors
  pages,              \* DataStructurer._pages, as the URLs of the records
  stage,              \* history: what each stage of the current URL did
  trace,              \* history: URL and outcome of each _process_url call that ended
  fetched,            \* history: the URLs handed to fetcher.fetch, in order
  probe,              \* the URL under test in NormSpec
  doc,                \* the parsed document handed to an extractor under test
  extracted,          \* what the extractor under test returned for doc
  seen_urls,          \* ImageExtractor._seen_urls
  seen_hashes,        \* ImageExtractor._seen_hashes
  itasks,             \* the _process_image coroutines of the running extract()
  images,             \* DataStructurer._images
  external_links,     \* DataStructurer._external_links
  downloads,          \* history: the image GET requests sent, in order
  checks,             \* history: the perceptual-hash lookups made, in order
  jobs,               \* a process running several jobs: its objects and decisions
  solo,               \* per job: the process that runs this job alone
  registry,           \* api._jobs: job id -> entry
  btask,              \* per job id: where its background task _run_crawl stands
  api_last            \* history: what the last endpoint call answered

fvars == <<queue, visited, enqueued, log, marked, last, nops>>

pvars == <<now, last_request_time, sem, pc, attempt, last_error, wake, result,
           returned, raised, got, dynamic, starts, calls>>

rvars == <<robots_cache, robots_delays, rpc, requests, rlast>>

cvars == <<cpc, cur, pages_crawled, errors, pages, stage, trace, fetched>>

ivars == <<seen_urls, seen_hashes, itasks, images, external_links, downloads, checks>>

jvars == <<jobs, solo>>

avars == <<registry, btask, api_last>>

xvars == <<config, doc, extracted, ivars, jvars, avars>>

ovars == <<rvars, cvars, probe, xvars>>

vars == <<queue, visited, enqueued, log, marked, last, nops,
          now, last_request_time, sem, pc, attempt, last_error, wake, result,
          returned, raised, got, dynamic, starts, calls,
          robots_cache, robots_delays, rpc, requests, rlast,
          cpc, cur, pages_crawled, errors, pages, stage, trace, fetched, probe,
          config, doc, extracted, seen_urls, seen_hashes, itasks, images, external_links,
          downloads, checks, jobs, solo, registry, btask, api_last>>

\* record of a call: op, the early return add_url took ("ok" when it enqueued),
\* the boolean add_url returned / whether get_next returned an entry, the entry
\* get_next returned, and how many popped entries get_next discarded
Call(op, why, ok, e, n) ==
  [op |-> op, why |-> why, ret |-> ok, entry |-> e, skipped |-> n]

FrontierInit ==
  /\ queue = <<>>
  /\ visited = {}
  /\ enqueued = {}
  /\ log = <<>>
  /\ marked = {}
  /\ last = Call("init", "", FALSE, NoEntry, 0)
  /\ nops = 0

\* variant of the add_url checks without the test against _enqueued
add_outcome_visited_only(url, depth) ==
  LET norm     == normalize_url(url)
      url_hash == Hash(norm)
  IN  IF norm = NoUrl THEN "invalid"
      ELSE IF depth > max_depth THEN "depth"
      ELSE IF url_hash \in visited THEN "duplicate"
      ELSE IF ~domain_allowed(norm) THEN "domain"
      ELSE "ok"

\* variant of the add_url checks with the depth test off by one
add_outcome_deep(url, depth) ==
  LET norm     == normalize_url(url)
      url_hash == Hash(norm)
  IN  IF norm = NoUrl THEN "invalid"
      ELSE IF depth > max_depth + 1 THEN "depth"
      ELSE IF url_hash \in visited \/ url_hash \in enqueued THEN "duplicate"
      ELSE IF ~domain_allowed(norm) THEN "domain"
      ELSE "ok"

\* URLFrontier.add_url, lines 53-64: which return the call takes
add_outcome(url, depth) ==
  LET norm     == normalize_url(url)
      url_hash == Hash(norm)
  IN  IF norm = NoUrl THEN "invalid"
      ELSE IF depth > max_depth THEN "depth"
      ELSE IF url_hash \in visited \/ url_hash \in enqueued THEN "duplicate"
      ELSE IF ~domain_allowed(norm) THEN "domain"
      ELSE "ok"

\* URLFrontier.add_url(url, depth)
add_url(url, depth) ==
  LET norm == normalize_url(url)
      why  == add_outcome(url, depth)
  IN  /\ IF why = "ok"
         THEN /\ queue' = heappush(queue, QueueEntry(depth, norm))
              /\ enqueued' = enqueued \cup {Hash(norm)}
              /\ log' = Append(log, [op |-> "add", url |-> norm, depth |-> depth])
         ELSE UNCHANGED <<queue, enqueued, log>>
      /\ last' = Call("add_url", why, why = "ok", NoEntry, 0)
      /\ UNCHANGED <<visited, marked>>

\* variant of the get_next loop that gives up at the first visited entry
PopLoop_stop(h, n) ==
  IF h = <<>> THEN <<h, NoEntry, n>>
  ELSE LET entry == heappop_item(h)
           rest  == heappop_rest(h)
       IN  IF Hash(entry.url) \in visited
           THEN <<rest, NoEntry, n + 1>>
           ELSE <<rest, entry, n>>

\* the while loop of get_next: <<heap left, entry returned or NoEntry, entries discarded>>
RECURSIVE PopLoop(_, _)
PopLoop(h, n) ==
  IF h = <<>> THEN <<h, NoEntry, n>>
  ELSE LET entry == heappop_item(h)
           rest  == heappop_rest(h)
       IN  IF Hash(entry.url) \in visited
           THEN PopLoop(rest, n + 1)
           ELSE <<rest, entry, n>>

\* variant of get_next that takes the returned URL out of _enqueued
get_next_release ==
  LET r == PopLoop(queue, 0)
  IN  /\ queue' = r[1]
      /\ log' = IF r[2] # NoEntry
                THEN Append(log, [op |-> "pop", url |-> r[2].url, depth |-> r[2].depth])
                ELSE log
      /\ last' = Call("get_next", "", r[2] # NoEntry, r[2], r[3])
      /\ enqueued' = IF r[2] # NoEntry THEN enqueued \ {Hash(r[2].url)} ELSE enqueued
      /\ UNCHANGED <<visited, marked>>

\* URLFrontier.get_next()
get_next ==
  LET r == PopLoop(queue, 0)
  IN  /\ queue' = r[1]
      /\ log' = IF r[2] # NoEntry
                THEN Append(log, [op |-> "pop", url |-> r[2].url, depth |-> r[2].depth])
                ELSE log
      /\ last' = Call("get_next", "", r[2] # NoEntry, r[2], r[3])
      /\ UNCHANGED <<visited, enqueued, marked>>

\* variant of mark_visited that hashes the URL as given
mark_visited_raw(url) ==
  /\ visited' = visited \cup {Hash(url)}
  /\ marked' = marked \cup {url}
  /\ last' = Call("mark_visited", "", FALSE, NoEntry, 0)
  /\ UNCHANGED <<queue, enqueued, log>>

\* URLFrontier.mark_visited(url)
mark_visited(url) ==
  LET n    == normalize_url(url)
      norm == IF n # NoUrl THEN n ELSE url
  IN  /\ visited' = visited \cup {Hash(norm)}
      /\ marked' = marked \cup {url}
      /\ last' = Call("mark_visited", "", FALSE, NoEntry, 0)
      /\ UNCHANGED <<queue, enqueued, log>>

\* one more call by the frontier's client
Step == nops < MaxOps /\ nops' = nops + 1 /\ UNCHANGED <<pvars, ovars>>

\* ------------------------------------------------------------------------
\* PageFetcher (app/fetcher.py)
\* ------------------------------------------------------------------------

\* CrawlConfig.rate_limit, in ticks
rate_limit == 2

\* CrawlConfig.max_retries
max_retries == 1

\* CrawlConfig.dynamic_fallback
dynamic_fallback == TRUE

\* variant of the semaphore with two slots
SemSlotsTwo == 1 + 1

\* asyncio.Semaphore(1)
SemSlots == 1

\* the backoff cap of _fetch_with_retries, in ticks
BackoffCap == 30

\* the clock is followed up to this time
MaxTime == 7

\* number of fetch() calls followed in one run
MaxFetches == 2

\* tasks that call fetch() on the shared fetcher in ConcSpec
Callers == {"c1", "c2"}

\* markup, by what _looks_js_heavy measures: len(html), whether a <body>
\* exists, len of the body text, number of <script> elements
Html(n, b, t, k) == [size |-> n, has_body |-> b, text |-> t, scripts |-> k]

EmptyHtml == Html(0, FALSE, 0, 0)

PlainHtml == Html(100, TRUE, 60, 1)

JsHtml == Html(100, TRUE, 2, 6)

NoError == "None"

ErrorTexts == {"timeout", "reset"}

\* FetchResult
FetchResult(st, h, m, e) == [status_code |-> st, html |-> h, method |-> m, error |-> e]

NoResult == FetchResult(-1, EmptyHtml, "", NoError)

\* FetchResult.ok
ok(r) == 200 <= r.status_code /\ r.status_code < 400 /\ r.html.size > 0 /\ r.error = NoError

\* what session.get can answer: status and body
Response(st, h) == [status |-> st, html |-> h]

NoResponse == Response(-1, EmptyHtml)

StaticResponses == { Response(200, PlainHtml), Response(200, JsHtml), Response(404, PlainHtml) }

\* what the headless browser can do: answer, or fail with an error text
DynamicOutcomes == { [status |-> 200, html |-> PlainHtml, error |-> NoError],
                     [status |-> 0, html |-> EmptyHtml, error |-> "crash"] }

\* PageFetcher._looks_js_heavy
looks_js_heavy(h) ==
  IF h.size = 0 THEN FALSE
  ELSE IF ~h.has_body THEN TRUE
  ELSE LET m == IF h.size > 1 THEN h.size ELSE 1
       IN  h.text * 100 < 5 * m /\ h.scripts > 5

\* 2 ** attempt
RECURSIVE Pow2(_)
Pow2(n) == IF n = 0 THEN 1 ELSE 2 * Pow2(n - 1)

\* wait = min(2 ** attempt, 30)
backoff(a) == IF Pow2(a) < BackoffCap THEN Pow2(a) ELSE BackoffCap

\* PageFetcher.__init__ with the tasks cs that will call it, at clock t0
FetcherInit(cs, t0) ==
  /\ now = t0
  /\ last_request_time = 0
  /\ sem = SemSlots
  /\ pc = [t \in cs |-> "idle"]
  /\ attempt = [t \in cs |-> 0]
  /\ last_error = [t \in cs |-> ""]
  /\ wake = [t \in cs |-> 0]
  /\ result = [t \in cs |-> NoResult]
  /\ returned = [t \in cs |-> NoResult]
  /\ raised = [t \in cs |-> <<>>]
  /\ got = [t \in cs |-> NoResponse]
  /\ dynamic = [t \in cs |-> <<>>]
  /\ starts = <<>>
  /\ calls = 0

\* the last two start times, with one more
Started(s, t) == IF Len(s) < 2 THEN Append(s, t) ELSE <<s[2], t>>

\* _fetch_static after _rate_limit: "async with self._semaphore" and the GET.
\* pcs is the position map the step started from.
enter_semaphore(t, pcs) ==
  IF sem > 0
  THEN /\ sem' = sem - 1
       /\ pc' = [pcs EXCEPT ![t] = "in_get"]
       /\ starts' = Started(starts, now)
  ELSE /\ sem' = sem
       /\ pc' = [pcs EXCEPT ![t] = "sem_wait"]
       /\ starts' = starts

\* variant of _fetch_static whose _rate_limit never sleeps
fetch_static_nosleep(t) ==
  /\ last_request_time' = now
  /\ enter_semaphore(t, pc)
  /\ UNCHANGED wake

\* _fetch_static from its first line: _rate_limit, then the semaphore
fetch_static(t) ==
  LET elapsed == now - last_request_time
  IN  IF elapsed < rate_limit
      THEN /\ wake' = [wake EXCEPT ![t] = now + (rate_limit - elapsed)]
           /\ pc' = [pc EXCEPT ![t] = "rate_sleep"]
           /\ UNCHANGED <<last_request_time, sem, starts>>
      ELSE /\ last_request_time' = now
           /\ enter_semaphore(t, pc)
           /\ UNCHANGED wake

\* PageFetcher.fetch(url) is called: _fetch_with_retries starts attempt 0
fetch_call(t) ==
  /\ pc[t] = "idle"
  /\ calls' = calls + 1
  /\ attempt' = [attempt EXCEPT ![t] = 0]
  /\ last_error' = [last_error EXCEPT ![t] = ""]
  /\ raised' = [raised EXCEPT ![t] = <<>>]
  /\ got' = [got EXCEPT ![t] = NoResponse]
  /\ dynamic' = [dynamic EXCEPT ![t] = <<>>]
  /\ result' = [result EXCEPT ![t] = NoResult]
  /\ fetch_static(t)
  /\ UNCHANGED <<now, returned>>

\* fetch(url) called by a task of its own, MaxFetches times at most
fetch(t) ==
  /\ calls < MaxFetches
  /\ fetch_call(t)
  /\ UNCHANGED <<fvars, ovars>>

\* _rate_limit: asyncio.sleep is over
rate_limit_wake(t) ==
  /\ pc[t] = "rate_sleep"
  /\ now >= wake[t]
  /\ last_request_time' = now
  /\ enter_semaphore(t, pc)
  /\ UNCHANGED <<now, attempt, last_error, wake, result, returned, raised, got, dynamic, calls>>
  /\ UNCHANGED <<fvars, ovars>>

\* a task waiting in "async with self._semaphore" gets the slot
sem_acquire(t) ==
  /\ pc[t] = "sem_wait"
  /\ sem > 0
  /\ sem' = sem - 1
  /\ pc' = [pc EXCEPT ![t] = "in_get"]
  /\ starts' = Started(starts, now)
  /\ UNCHANGED <<now, last_request_time, attempt, last_error, wake, result, returned,
                 raised, got, dynamic, calls>>
  /\ UNCHANGED <<fvars, ovars>>

\* variant of the GET's answer in which a status of 400 or more counts as a
\* failed attempt and goes to the backoff sleep
get_returns_retry_status(t, resp) ==
  LET res == FetchResult(resp.status, resp.html, "static", NoError)
  IN  /\ pc[t] = "in_get"
      /\ sem' = sem + 1
      /\ got' = [got EXCEPT ![t] = resp]
      /\ IF resp.status >= 400
         THEN /\ last_error' = [last_error EXCEPT ![t] = "Bad status"]
              /\ wake' = [wake EXCEPT ![t] = now + backoff(attempt[t])]
              /\ pc' = [pc EXCEPT ![t] = "backoff"]
              /\ UNCHANGED <<result, returned>>
         ELSE /\ result' = [result EXCEPT ![t] = res]
              /\ UNCHANGED <<last_error, wake>>
              /\ IF ok(res) /\ dynamic_fallback /\ looks_js_heavy(res.html)
                 THEN /\ pc' = [pc EXCEPT ![t] = "dynamic"]
                      /\ UNCHANGED returned
                 ELSE /\ pc' = [pc EXCEPT ![t] = "idle"]
                      /\ returned' = [returned EXCEPT ![t] = res]
      /\ UNCHANGED <<now, last_request_time, attempt, raised, dynamic, starts, calls>>
      /\ UNCHANGED <<fvars, ovars>>

\* the GET answers: _fetch_static returns, _fetch_with_retries returns, and
\* fetch() either starts the dynamic re-fetch or returns
get_returns(t, resp) ==
  LET res == FetchResult(resp.status, resp.html, "static", NoError)
  IN  /\ pc[t] = "in_get"
      /\ sem' = sem + 1
      /\ got' = [got EXCEPT ![t] = resp]
      /\ result' = [result EXCEPT ![t] = res]
      /\ IF ok(res) /\ dynamic_fallback /\ looks_js_heavy(res.html)
         THEN /\ pc' = [pc EXCEPT ![t] = "dynamic"]
              /\ UNCHANGED returned
         ELSE /\ pc' = [pc EXCEPT ![t] = "idle"]
              /\ returned' = [returned EXCEPT ![t] = res]
      /\ UNCHANGED <<now, last_request_time, attempt, last_error, wake, raised, dynamic, starts, calls>>
      /\ UNCHANGED <<fvars, ovars>>

\* variant of the except branch that keeps the first error text
get_raises_first(t, err) ==
  /\ pc[t] = "in_get"
  /\ sem' = sem + 1
  /\ last_error' = [last_error EXCEPT ![t] = IF @ = "" THEN err ELSE @]
  /\ raised' = [raised EXCEPT ![t] = Append(@, err)]
  /\ wake' = [wake EXCEPT ![t] = now + backoff(attempt[t])]
  /\ pc' = [pc EXCEPT ![t] = "backoff"]
  /\ UNCHANGED <<now, last_request_time, attempt, result, returned, got, dynamic, starts, calls>>
  /\ UNCHANGED <<fvars, ovars>>

\* the GET raises: the except branch of _fetch_with_retries
get_raises(t, err) ==
  /\ pc[t] = "in_get"
  /\ sem' = sem + 1
  /\ last_error' = [last_error EXCEPT ![t] = err]
  /\ raised' = [raised EXCEPT ![t] = Append(@, err)]
  /\ wake' = [wake EXCEPT ![t] = now + backoff(attempt[t])]
  /\ pc' = [pc EXCEPT ![t] = "backoff"]
  /\ UNCHANGED <<now, last_request_time, attempt, result, returned, got, dynamic, starts, calls>>
  /\ UNCHANGED <<fvars, ovars>>

\* the backoff sleep is over: next attempt, or the status-0 result
backoff_wake(t) ==
  /\ pc[t] = "backoff"
  /\ now >= wake[t]
  /\ IF attempt[t] + 1 < max_retries + 1
     THEN /\ attempt' = [attempt EXCEPT ![t] = @ + 1]
          /\ fetch_static(t)
          /\ UNCHANGED <<result, returned>>
     ELSE LET res == FetchResult(0, EmptyHtml, "static", last_error[t])
          IN  /\ result' = [result EXCEPT ![t] = res]
              /\ returned' = [returned EXCEPT ![t] = res]
              /\ pc' = [pc EXCEPT ![t] = "idle"]
              /\ UNCHANGED <<attempt, wake, last_request_time, sem, starts>>
  /\ UNCHANGED <<now, last_error, raised, got, dynamic, calls>>
  /\ UNCHANGED <<fvars, ovars>>

\* variant of fetch() that returns the dynamic result whatever it is
dynamic_returns_always(t, out) ==
  LET dyn == FetchResult(out.status, out.html, "dynamic", out.error)
  IN  /\ pc[t] = "dynamic"
      /\ pc' = [pc EXCEPT ![t] = "idle"]
      /\ dynamic' = [dynamic EXCEPT ![t] = Append(@, dyn)]
      /\ returned' = [returned EXCEPT ![t] = dyn]
      /\ UNCHANGED <<now, last_request_time, sem, attempt, last_error, wake, result,
                     raised, got, starts, calls>>
      /\ UNCHANGED <<fvars, ovars>>

\* _fetch_dynamic returns (it catches its own exceptions); fetch() returns
dynamic_returns(t, out) ==
  LET dyn == FetchResult(out.status, out.html, "dynamic", out.error)
  IN  /\ pc[t] = "dynamic"
      /\ pc' = [pc EXCEPT ![t] = "idle"]
      /\ dynamic' = [dynamic EXCEPT ![t] = Append(@, dyn)]
      /\ returned' = [returned EXCEPT ![t] = IF ok(dyn) THEN dyn ELSE result[t]]
      /\ UNCHANGED <<now, last_request_time, sem, attempt, last_error, wake, result,
                     raised, got, starts, calls>>
      /\ UNCHANGED <<fvars, ovars>>

\* time passes
Tick ==
  /\ now < MaxTime
  /\ now' = now + 1
  /\ UNCHANGED <<last_request_time, sem, pc, attempt, last_error, wake, result,
                 returned, raised, got, dynamic, starts, calls>>
  /\ UNCHANGED <<fvars, ovars>>

\* ------------------------------------------------------------------------
\* RobotsChecker (app/robots.py)
\* ------------------------------------------------------------------------

\* the value None of a crawl delay
NoDelay == 0 - 1

\* a parsed robots.txt: the path prefixes it disallows for the crawler's user
\* agent and its Crawl-delay; loaded is FALSE for the None sentinel
Parser(dis, delay) == [loaded |-> TRUE, disallow |-> dis, delay |-> delay]

NoParser == [loaded |-> FALSE, disallow |-> {}, delay |-> NoDelay]

\* robots.txt files a server may answer with
RobotsFiles == { Parser({}, NoDelay), Parser({ <<"/", "b">> }, 5) }

\* what the GET of robots.txt can do: answer 200 with a file, answer another
\* status, or raise
RobotsOutcomes ==
  { [status |-> 200, file |-> f, raises |-> FALSE] : f \in RobotsFiles }
    \cup { [status |-> 404, file |-> NoParser, raises |-> FALSE],
           [status |-> 0, file |-> NoParser, raises |-> TRUE] }

\* URLs the checker is asked about in RobotsSpec
RobotsUrls == { u \in SampleUrls : u.scheme \in {"http", "https"} }

\* RobotsChecker._domain
Domain(u) == Lower(u.netloc)

\* d[k] = v on a dict
Store(d, k, v) == [x \in DOMAIN d \cup {k} |-> IF x = k THEN v ELSE d[x]]

\* the empty dict
EmptyDict == [x \in {} |-> NoParser]

NoCall == [op |-> "", url |-> NoUrl]

\* how a RobotsChecker call ended: the boolean can_fetch returned, the delay
\* get_crawl_delay returned, whether it raised, whether it sent a GET
Ended(op, u, a, d, r, g) ==
  [op |-> op, url |-> u, allowed |-> a, delay |-> d, raised |-> r, sent |-> g]

\* RobotFileParser.can_fetch(user_agent, url) by the rules of the file
rp_can_fetch(rp, u) ==
  ~ \E d \in rp.disallow : Len(d) <= Len(u.path) /\ SubSeq(u.path, 1, Len(d)) = d

\* RobotsChecker.__init__
RobotsInit ==
  /\ robots_cache = EmptyDict
  /\ robots_delays = EmptyDict
  /\ rpc = NoCall
  /\ requests = <<>>
  /\ rlast = Ended("init", NoUrl, FALSE, NoDelay, FALSE, FALSE)

\* can_fetch lines 35-37, once _get_parser has returned rp; x tells whether
\* RobotFileParser.can_fetch raises on this URL
can_fetch_end(u, rp, x, g) ==
  rlast' = IF ~rp.loaded THEN Ended("can_fetch", u, TRUE, NoDelay, FALSE, g)
           ELSE IF x THEN Ended("can_fetch", u, FALSE, NoDelay, TRUE, g)
           ELSE Ended("can_fetch", u, rp_can_fetch(rp, u), NoDelay, FALSE, g)

\* get_crawl_delay line 44: self._delays.get(domain)
get_crawl_delay_end(u, delays, g) ==
  rlast' = Ended("get_crawl_delay", u, FALSE,
                 IF Domain(u) \in DOMAIN delays THEN delays[Domain(u)] ELSE NoDelay,
                 FALSE, g)

\* RobotsChecker.can_fetch(url) up to its first await
can_fetch(u, x) ==
  /\ rpc = NoCall
  /\ IF Domain(u) \in DOMAIN robots_cache
     THEN /\ x => robots_cache[Domain(u)].loaded
          /\ can_fetch_end(u, robots_cache[Domain(u)], x, FALSE)
          /\ UNCHANGED <<rpc, requests>>
     ELSE /\ ~x
          /\ rpc' = [op |-> "can_fetch", url |-> u]
          /\ requests' = Append(requests, Domain(u))
          /\ UNCHANGED rlast
  /\ UNCHANGED <<robots_cache, robots_delays>>

\* RobotsChecker.get_crawl_delay(url) up to its first await
get_crawl_delay(u) ==
  /\ rpc = NoCall
  /\ IF Domain(u) \in DOMAIN robots_delays \/ Domain(u) \in DOMAIN robots_cache
     THEN /\ get_crawl_delay_end(u, robots_delays, FALSE)
          /\ UNCHANGED <<rpc, requests>>
     ELSE /\ rpc' = [op |-> "get_crawl_delay", url |-> u]
          /\ requests' = Append(requests, Domain(u))
          /\ UNCHANGED rlast
  /\ UNCHANGED <<robots_cache, robots_delays>>

\* variant of _get_parser that stores nothing when robots.txt is unavailable
get_parser_done_nocache(out) ==
  IF out.status = 200 /\ ~out.raises
  THEN /\ robots_cache' = Store(robots_cache, Domain(rpc.url), out.file)
       /\ robots_delays' = Store(robots_delays, Domain(rpc.url),
                                 IF out.file.delay > 0 THEN out.file.delay ELSE NoDelay)
  ELSE UNCHANGED <<robots_cache, robots_delays>>

\* _get_parser from the answer of the GET on: lines 59-78
get_parser_done(out) ==
  IF out.status = 200 /\ ~out.raises
  THEN /\ robots_cache' = Store(robots_cache, Domain(rpc.url), out.file)
       /\ robots_delays' = Store(robots_delays, Domain(rpc.url),
                                 IF out.file.delay > 0 THEN out.file.delay ELSE NoDelay)
  ELSE /\ robots_cache' = Store(robots_cache, Domain(rpc.url), NoParser)
       /\ robots_delays' = Store(robots_delays, Domain(rpc.url), NoDelay)

\* the GET of robots.txt is over: _get_parser returns and the waiting call ends
robots_get_done(out, x) ==
  /\ rpc # NoCall
  /\ get_parser_done(out)
  /\ rpc' = NoCall
  /\ IF rpc.op = "can_fetch"
     THEN /\ x => (out.status = 200 /\ ~out.raises)
          /\ can_fetch_end(rpc.url, IF out.status = 200 /\ ~out.raises THEN out.file ELSE NoParser,
                           x, TRUE)
     ELSE /\ ~x
          /\ get_crawl_delay_end(rpc.url, robots_delays', TRUE)
  /\ UNCHANGED requests

\* ------------------------------------------------------------------------
\* LinkExtractor (app/extractors/link.py)
\* ------------------------------------------------------------------------

\* number of <a href> tags of a document under test
MaxAnchors == 3

\* the page the documents under test were fetched from
page_url == Url("https", <<"example", "com">>, <<"/">>, <<>>, "")

\* an href attribute: a reference, possibly with white space around it; a
\* relative reference has no scheme and no netloc, the empty string nothing
Href(pad, ref) == [pad |-> pad, ref |-> ref]

\* the href values of the documents under test
Hrefs ==
  { Href(FALSE, Url("", <<>>, <<"/", "about">>, <<>>, "")),
    Href(TRUE,  Url("", <<>>, <<"/", "about">>, <<>>, "")),
    Href(FALSE, Url("", <<>>, <<"/", "Login">>, <<>>, "")),
    Href(FALSE, Url("mailto", <<>>, <<"x@y.com">>, <<>>, "")),
    Href(FALSE, Url("", <<>>, <<"/", "file", ".", "PDF">>, << <<"id", "5">> >>, "")),
    Href(FALSE, Url("", <<>>, <<"/", "v", ".", "zip", "/", "notes">>, <<>>, "")),
    Href(FALSE, Url("https", <<"external", "com">>, <<"/", "x">>, <<>>, "")),
    Href(FALSE, Url("", <<"WWW", "Example", "com">>, <<"/", "page2">>, <<>>, "")),
    Href(TRUE,  NoUrl) }

\* str.strip() on an href: the white space around the reference goes
Strip(h) == [h EXCEPT !.pad = FALSE]

\* urljoin(base, ref) for the references that occur: a reference with a
\* scheme of its own is taken as it is, one with a netloc takes the scheme of
\* the base, one with an absolute path the scheme and netloc, an empty one is
\* the base
urljoin(base, ref) ==
  IF ref.scheme # "" THEN ref
  ELSE IF ref.netloc # <<>> THEN [ref EXCEPT !.scheme = base.scheme]
  ELSE IF ref.path # <<>> THEN [ref EXCEPT !.scheme = base.scheme, !.netloc = base.netloc]
  ELSE [base EXCEPT !.query = IF ref.query # <<>> THEN ref.query ELSE @,
                    !.fragment = ref.fragment]

\* the words of _SKIP_PATTERNS that occur in the URLs under test, in the
\* spellings that occur (the pattern ignores case)
SkipWords == {"login", "Login", "admin", "mailto:"}

\* _SKIP_PATTERNS.search(abs_url): a skip word occurs somewhere in the string
SkipPatternsSearch(u) ==
  \/ \E i \in DOMAIN u.netloc : u.netloc[i] \in SkipWords
  \/ \E i \in DOMAIN u.path : u.path[i] \in SkipWords
  \/ \E i \in DOMAIN u.query : u.query[i][1] \in SkipWords \/ u.query[i][2] \in SkipWords

\* _SKIP_EXTENSIONS, without the dot
SkipExtensions ==
  { "pdf", "doc", "docx", "xls", "xlsx", "ppt", "pptx", "zip", "tar", "gz", "rar", "7z",
    "mp3", "mp4", "avi", "mov", "wmv", "exe", "dmg", "apk" }

\* str.lower() on a file extension
LowerExt(e) == CASE e = "PDF" -> "pdf" [] e = "ZIP" -> "zip" [] OTHER -> e

\* path.split("/")[-1]: what follows the last slash
RECURSIVE LastSegment(_)
LastSegment(p) ==
  IF p = <<>> \/ p[Len(p)] = "/" THEN <<>>
  ELSE Append(LastSegment(SubSeq(p, 1, Len(p) - 1)), p[Len(p)])

\* LinkExtractor._get_extension, without the dot: what follows the last dot
\* when the last path segment has one, lowercased; "" otherwise
get_extension(p) ==
  LET seg == LastSegment(p)
  IN  IF \E i \in DOMAIN seg : seg[i] = "." THEN LowerExt(p[Len(p)]) ELSE ""

\* dict.fromkeys(l) as a list: the first occurrence of every element, in order
RECURSIVE Dedupe(_)
Dedupe(l) ==
  IF l = <<>> THEN <<>>
  ELSE LET init == Dedupe(SubSeq(l, 1, Len(l) - 1))
           x    == l[Len(l)]
       IN  IF \E i \in DOMAIN init : init[i] = x THEN init ELSE Append(init, x)

\* the classification of lines 71-76
link_internal(u) ==
  LET domain == Lower(u.netloc)
  IN  domain \in allowed_domains \/ StripWww(domain) \in allowed_domains

\* variant of the filter of lines 49-68 without the extension test
link_kept_any_extension(h, base) ==
  LET abs_url == urljoin(base, Strip(h).ref)
  IN  /\ Strip(h).ref # NoUrl
      /\ abs_url.scheme \in {"http", "https"}
      /\ ~SkipPatternsSearch(abs_url)

\* lines 49-68 of extract: the tag passes every filter
link_kept(h, base) ==
  LET abs_url == urljoin(base, Strip(h).ref)
  IN  /\ Strip(h).ref # NoUrl
      /\ abs_url.scheme \in {"http", "https"}
      /\ ~SkipPatternsSearch(abs_url)
      /\ get_extension(abs_url.path) \notin SkipExtensions

\* LinkExtractor.extract on the <a href> tags of a document, in document
\* order: (internal_links, external_links)
link_extract(anchors, base) ==
  LET kept     == SelectSeq(anchors, LAMBDA h : link_kept(h, base))
      absolute == [i \in DOMAIN kept |-> urljoin(base, Strip(kept[i]).ref)]
  IN  [internal |-> Dedupe(SelectSeq(absolute, link_internal)),
       external |-> Dedupe(SelectSeq(absolute, LAMBDA u : ~link_internal(u)))]

\* ------------------------------------------------------------------------
\* TextExtractor (app/extractors/text.py)
\* ------------------------------------------------------------------------

\* number of heading tags of a document under test
MaxTags == 3

\* an <h1>..<h6> element: its level and the text inside it
Heading(level, text) == [level |-> level, text |-> text]

\* the heading tags of the documents under test
HeadingTags ==
  { Heading(1, "Welcome"), Heading(2, "Intro"), Heading(2, " "), Heading(6, "Notes") }

\* tag.get_text(strip=True): white space alone leaves nothing
StripText(t) == IF t = " " THEN "" ELSE t

\* the inner loop of _get_headings (lines 49-52) for one level
headings_of_level(tags, level) ==
  LET found == SelectSeq(tags, LAMBDA t : t.level = level /\ StripText(t.text) # "")
  IN  [i \in DOMAIN found |-> Heading(level, StripText(found[i].text))]

\* TextExtractor._get_headings on the heading tags of a document, given in
\* document order: find_all is run once per level, for the levels 1 to 6
RECURSIVE headings_from(_, _)
headings_from(tags, level) ==
  IF level > 6 THEN <<>>
  ELSE headings_of_level(tags, level) \o headings_from(tags, level + 1)

get_headings(tags) == headings_from(tags, 1)

\* ------------------------------------------------------------------------
\* Several jobs in one process (app/api.py _run_crawl): the objects of a job
\* ------------------------------------------------------------------------

\* the jobs running concurrently
JobIds == {1, 2}

\* the stateful collaborators Crawler.__init__ builds: URLFrontier,
\* RobotsChecker and, inside ExtractorPipeline, ImageExtractor
Classes == {"frontier", "robots", "images"}

\* variant in which the seen sets of ImageExtractor are attributes of the
\* class, one object for all extractors of the process
ObjectOf_class_level(j, cls) == IF cls = "images" THEN <<cls, 0>> ELSE <<cls, j>>

\* the object of class cls that job j works on: _run_crawl builds a Crawler
\* per job, Crawler.__init__ a new instance of every collaborator, and each
\* __init__ binds new sets, lists and dicts to self
ObjectOf(j, cls) == <<cls, j>>

\* the attributes __init__ sets
NewObject(cls) ==
  CASE cls = "frontier" -> [queue |-> <<>>, visited |-> {}, enqueued |-> {}]
    [] cls = "robots"   -> [cache |-> EmptyDict]
    [] cls = "images"   -> [seen_urls |-> {}, seen_hashes |-> {}]

\* a process running the jobs js, just constructed: its objects, and per job
\* the decisions taken so far
World(js) ==
  [heap |-> [o \in { ObjectOf(j, c) : j \in js, c \in Classes } |-> NewObject(o[1])],
   log  |-> [j \in js |-> <<>>]]

\* the process with all jobs, and next to it every job in a process of its own
JobsInit ==
  /\ jobs = World(JobIds)
  /\ solo = [j \in JobIds |-> World({j})]

\* ------------------------------------------------------------------------
\* The job registry of the API (app/api.py)
\* ------------------------------------------------------------------------

\* job ids submit_crawl may draw; an id is drawn once
ApiJobIds == {"j1", "j2"}

\* JobStatus
QUEUED == "queued"

RUNNING == "running"

COMPLETED == "completed"

FAILED == "failed"

\* the value None of completed_at, report and error
None == "None"

\* the entry submit_crawl stores in _jobs
NewJob(id) ==
  [job_id |-> id, status |-> QUEUED, completed_at |-> None, report |-> None, error |-> None]

\* what an endpoint answered
ApiResponse(op, id, code) == [op |-> op, id |-> id, code |-> code]

\* the module as imported: no job, no background task
ApiInit ==
  /\ registry = [id \in {} |-> NewJob(id)]
  /\ btask = [id \in ApiJobIds |-> "none"]
  /\ api_last = ApiResponse("", "", 0)

\* ------------------------------------------------------------------------
\* Extractors under test: what they start from
\* ------------------------------------------------------------------------

\* nothing extracted yet
NoOutput == [done |-> FALSE]

\* ImageExtractor.__init__ and DataStructurer.__init__ (image and link lists)
ImageInit ==
  /\ seen_urls = {}
  /\ seen_hashes = {}
  /\ itasks = <<>>
  /\ images = <<>>
  /\ external_links = <<>>
  /\ downloads = <<>>
  /\ checks = <<>>

\* the extractors of a job as constructed, no document under test
ExtractInit ==
  /\ config = DefaultConfig
  /\ doc = <<>>
  /\ extracted = NoOutput
  /\ ImageInit
  /\ JobsInit /\ ApiInit

\* ------------------------------------------------------------------------
\* ImageExtractor (app/extractors/image.py)
\* ------------------------------------------------------------------------

\* number of <img> tags of a page, and of pages one extractor is run on
MaxImgs == 2

MaxImagePages == 2

\* HAS_IMAGEHASH: PIL and imagehash could be imported
HAS_IMAGEHASH == TRUE

\* ImageExtractor.min_size and ImageExtractor.download of the extractor the
\* pipeline builds: ExtractorPipeline.__init__ calls
\* ImageExtractor(output_dir=output_dir), so both take the defaults of the
\* constructor whatever the CrawlConfig says
image_min_size == 100

image_download == TRUE

\* an <img> tag: its src, data-src and data-lazy-src attributes ("" when the
\* attribute is missing or empty, "data:" for a data: URI, a path otherwise)
Img(src, data_src, lazy_src) == [src |-> src, data_src |-> data_src, lazy_src |-> lazy_src]

\* the <img> tags of the pages under test
ImgTags ==
  { Img("/logo.png", "", ""),
    Img("", "/logo-copy.png", "/logo.png"),
    Img("/icon.png", "", ""),
    Img("data:", "/icon.png", "") }

\* what the site serves under an image URL: size and perceptual hash of the
\* decoded image
ImageFile(u) ==
  CASE u = "/logo.png"      -> [w |-> 120, h |-> 120, phash |-> "c3c3"]
    [] u = "/logo-copy.png" -> [w |-> 120, h |-> 120, phash |-> "c3c3"]
    [] u = "/icon.png"      -> [w |-> 120, h |-> 50,  phash |-> "0f0f"]
    [] OTHER                -> [w |-> 100, h |-> 100, phash |-> "ffff"]

\* how the download of an image ends: the data arrives and decodes, the data
\* arrives and PIL cannot open it, or there is no data (status other than
\* 200, empty body, exception)
ImageOutcomes == {"decoded", "undecodable", "failed"}

\* the dict _process_image returns; NoImage stands for None
ImageRecord(u, page, path) == [image_url |-> u, source_page |-> page, image_path |-> path]

NoImage == ImageRecord("", "", "")

\* line 75: img.get("src") or img.get("data-src") or img.get("data-lazy-src") or ""
img_src(t) ==
  IF t.src # "" THEN t.src ELSE IF t.data_src # "" THEN t.data_src ELSE t.lazy_src

\* ImageExtractor._find_image_urls on the <img> tags of a page, with
\* _seen_urls as it stands: the URLs found and _seen_urls afterwards
RECURSIVE find_image_urls(_, _)
find_image_urls(imgs, seen) ==
  IF imgs = <<>> THEN [found |-> <<>>, seen |-> seen]
  ELSE LET before == find_image_urls(SubSeq(imgs, 1, Len(imgs) - 1), seen)
           src    == img_src(imgs[Len(imgs)])
       IN  IF src = "" \/ src = "data:" THEN before
           ELSE IF src \in before.seen THEN before
           ELSE [found |-> Append(before.found, src), seen |-> before.seen \cup {src}]

\* variant of the size filter that looks at the width only
too_small_width_only(file) == file.w < image_min_size

\* the size filter of _process_image (line 108)
too_small(file) == file.w < image_min_size \/ file.h < image_min_size

\* variant of the filter of _process_image that adds no hash to _seen_hashes
process_image_data_forgetful(u, page, outcome, hashes) ==
  LET file == ImageFile(u)
      kept == [record |-> ImageRecord(u, page, "saved"), hashes |-> hashes, checked |-> FALSE]
      none == [record |-> NoImage, hashes |-> hashes, checked |-> FALSE]
  IN  IF outcome = "failed" THEN none
      ELSE IF HAS_IMAGEHASH /\ outcome = "decoded"
      THEN IF too_small(file) THEN none
           ELSE IF file.phash \in hashes THEN [none EXCEPT !.checked = TRUE]
           ELSE [kept EXCEPT !.checked = TRUE]
      ELSE kept

\* _process_image from the moment the response is there (lines 96-138), run
\* without an await in between: the record returned, _seen_hashes
\* afterwards, and whether the perceptual hash was looked up
process_image_data(u, page, outcome, hashes) ==
  LET file == ImageFile(u)
      kept == [record |-> ImageRecord(u, page, "saved"), hashes |-> hashes, checked |-> FALSE]
      none == [record |-> NoImage, hashes |-> hashes, checked |-> FALSE]
  IN  IF outcome = "failed" THEN none
      ELSE IF HAS_IMAGEHASH /\ outcome = "decoded"
      THEN IF too_small(file) THEN none
           ELSE IF file.phash \in hashes THEN [none EXCEPT !.checked = TRUE]
           ELSE [kept EXCEPT !.hashes = hashes \cup {file.phash}, !.checked = TRUE]
      ELSE kept

\* a _process_image coroutine of the running extract()
ImageTask(u, st, rec) == [url |-> u, state |-> st, record |-> rec]

\* the outcomes gather returned that are dicts, in task order (lines 60-64)
RECURSIVE gathered(_)
gathered(tasks) ==
  IF tasks = <<>> THEN <<>>
  ELSE IF Head(tasks).record = NoImage THEN gathered(Tail(tasks))
  ELSE <<Head(tasks).record>> \o gathered(Tail(tasks))

\* the coroutines of one extract(), the responses of run arriving one after
\* the other: run lists, in the order in which the downloads end, the task
\* and how its download ended
RECURSIVE run_responses(_, _, _)
run_responses(st, page, run) ==
  IF run = <<>> THEN st
  ELSE LET i == Head(run).task
           r == process_image_data(st.tasks[i].url, page, Head(run).outcome, st.hashes)
       IN  run_responses(
             [tasks  |-> [st.tasks EXCEPT ![i] = ImageTask(@.url, "done", r.record)],
              hashes |-> r.hashes,
              checks |-> IF r.checked
                         THEN Append(st.checks, [url |-> st.tasks[i].url,
                                                 kept |-> r.record # NoImage])
                         ELSE st.checks],
             page, Tail(run))

\* the orders in which n downloads can end, each with how it ended
ImageRuns(n, outcomes) ==
  { run \in [1 .. n -> [task : 1 .. n, outcome : outcomes]] :
      \A i, j \in 1 .. n : i # j => run[i].task # run[j].task }

\* ImageExtractor.extract run from call to return on the <img> tags of a
\* page, its downloads ending as run tells: the dicts returned and the
\* state of the extractor afterwards
image_extract(imgs, page, run, seen, hashes) ==
  LET f  == find_image_urls(imgs, seen)
      st == run_responses(
              [tasks  |-> [i \in DOMAIN f.found |-> ImageTask(f.found[i], "get", NoImage)],
               hashes |-> hashes, checks |-> <<>>],
              page, run)
  IN  [found   |-> f.found,
       seen    |-> f.seen,
       hashes  |-> st.hashes,
       checks  |-> st.checks,
       records |-> IF image_download
                   THEN gathered(st.tasks)
                   ELSE [i \in DOMAIN f.found |-> ImageRecord(f.found[i], page, "")]]

\* extract() is called on a page (lines 52-58): the image URLs are found and
\* every _process_image coroutine runs up to its GET; without downloads
\* every coroutine returns its dict at once
image_extract_begin(imgs, page) ==
  LET f == find_image_urls(imgs, seen_urls)
  IN  /\ itasks = <<>>
      /\ doc' = imgs
      /\ seen_urls' = f.seen
      /\ extracted' = [done |-> f.found = <<>> \/ ~image_download, page |-> page,
                       found |-> f.found]
      /\ IF image_download
         THEN /\ itasks' = [i \in DOMAIN f.found |-> ImageTask(f.found[i], "get", NoImage)]
              /\ downloads' = downloads \o f.found
              /\ UNCHANGED images
         ELSE /\ itasks' = <<>>
              /\ images' = images \o [i \in DOMAIN f.found |-> ImageRecord(f.found[i], page, "")]
              /\ UNCHANGED downloads
      /\ UNCHANGED <<seen_hashes, checks>>

\* the GET of coroutine i is over; the coroutine runs to its end
image_response(i, outcome) ==
  LET r == process_image_data(itasks[i].url, extracted.page, outcome, seen_hashes)
  IN  /\ i \in DOMAIN itasks
      /\ itasks[i].state = "get"
      /\ itasks' = [itasks EXCEPT ![i] = ImageTask(@.url, "done", r.record)]
      /\ seen_hashes' = r.hashes
      /\ checks' = IF r.checked
                   THEN Append(checks, [url |-> itasks[i].url,
                                        kept |-> r.record # NoImage])
                   ELSE checks
      /\ UNCHANGED <<doc, extracted, seen_urls, images, downloads>>

\* gather returns: extract() returns the dicts (lines 58-66) and the crawler
\* hands them to DataStructurer.add_images (crawler.py 169-170)
image_extract_end ==
  /\ itasks # <<>>
  /\ \A i \in DOMAIN itasks : itasks[i].state = "done"
  /\ images' = images \o gathered(itasks)
  /\ itasks' = <<>>
  /\ extracted' = [extracted EXCEPT !.done = TRUE]
  /\ UNCHANGED <<doc, seen_urls, seen_hashes, downloads, checks>>

\* ------------------------------------------------------------------------
\* ExtractorPipeline (app/extractors/__init__.py)
\* ------------------------------------------------------------------------

\* a parsed page: the text and the links its extractors find when they do
\* not fail, and its <img> tags
Page(txt, imgs, internal, external) ==
  [text |-> txt, images |-> imgs, internal |-> internal, external |-> external]

\* ExtractionResult; NoText stands for the empty dict
ExtractionResult(t, i, inl, exl) ==
  [text_data |-> t, images |-> i, internal_links |-> inl, external_links |-> exl]

NoText == ""

Extractors == {"text", "image", "link"}

\* variant of run with one handler around the three extractors
pipeline_run_abort(page, fails, image_records) ==
  LET r0 == ExtractionResult(NoText, <<>>, <<>>, <<>>)
      r1 == [r0 EXCEPT !.text_data = page.text]
      r2 == [r1 EXCEPT !.images = image_records]
      r3 == [r2 EXCEPT !.internal_links = page.internal,
                       !.external_links = page.external]
  IN  IF "text" \in fails THEN r0
      ELSE IF "image" \in fails THEN r1
      ELSE IF "link" \in fails THEN r2
      ELSE r3

\* ExtractorPipeline.run: three try blocks in sequence; fails are the
\* extractors that raise on this page, image_records is what
\* ImageExtractor.extract returned if it did not raise
pipeline_run(page, fails, image_records) ==
  LET r0 == ExtractionResult(NoText, <<>>, <<>>, <<>>)
      r1 == IF "text" \in fails THEN r0 ELSE [r0 EXCEPT !.text_data = page.text]
      r2 == IF "image" \in fails THEN r1 ELSE [r1 EXCEPT !.images = image_records]
      r3 == IF "link" \in fails THEN r2
            ELSE [r2 EXCEPT !.internal_links = page.internal,
                            !.external_links = page.external]
  IN  r3

\* ------------------------------------------------------------------------
\* Crawler (app/crawler.py) and JobManager.run_async (app/job_manager.py)
\* ------------------------------------------------------------------------

\* CrawlConfig.start_url
start_url == config.start_url

\* CrawlConfig.page_limit
page_limit == config.page_limit

\* CrawlConfig.respect_robots
respect_robots == TRUE

\* CrawlConfig.save_raw_html
save_raw_html == TRUE

\* the crawled sites: what each page holds.  The site of DefaultConfig has
\* no images (/a links to itself under another
\* spelling, to /b and to "/c #top", whose path ends with a space; /b links
\* back to /a and to "/c #top"; "/c " links to /b)
\* /t links to /c and to "/c #top"; /r links to /r1 and /r2, /r1 to /r3 and
\* /r2; every page not named here links to /b?id=5
SitePage(u) ==
  CASE u.path = <<"/", "a">> ->
         Page("A", <<>>,
              << Url("http", <<"Example", "COM">>, <<"/", "/", "a">>,
                     << <<"utm_source", "x">> >>, "top"),
                 Url("https", <<"example", "com">>, <<"/", "b">>, << <<"id", "5">> >>, ""),
                 Url("http", <<"WWW", "example", "com">>, <<"/", "c", " ">>, <<>>, "top") >>,
              << Url("http", <<"other", "com">>, <<"/", "a">>, <<>>, "") >>)
    [] u.path = <<"/", "b">> ->
         Page("B", <<>>,
              << Url("http", <<"example", "com">>, <<"/", "a">>, <<>>, ""),
                 Url("http", <<"WWW", "example", "com">>, <<"/", "c", " ">>, <<>>, "top") >>,
              <<>>)
    [] u.path = <<"/">> ->
         Page("Home", << Img("/logo.png", "", ""), Img("/icon.png", "", "") >>,
              << Url("https", <<"example", "com">>, <<"/", "about">>, <<>>, ""),
                 Url("https", <<"example", "com">>, <<"/", "page2">>, <<>>, "") >>,
              << Url("https", <<"external", "com">>, <<"/", "x">>, <<>>, "") >>)
    [] u.path = <<"/", "r">> ->
         Page("R", <<>>,
              << Url("http", <<"example", "com">>, <<"/", "r1">>, <<>>, ""),
                 Url("http", <<"example", "com">>, <<"/", "r2">>, <<>>, "") >>,
              <<>>)
    [] u.path = <<"/", "r1">> ->
         Page("R1", <<>>,
              << Url("http", <<"example", "com">>, <<"/", "r3">>, <<>>, ""),
                 Url("http", <<"example", "com">>, <<"/", "r2">>, <<>>, "") >>,
              <<>>)
    [] u.path = <<"/", "t">> ->
         Page("T", <<>>,
              << Url("http", <<"example", "com">>, <<"/", "c">>, <<>>, ""),
                 Url("http", <<"example", "com">>, <<"/", "c", " ">>, <<>>, "top") >>,
              <<>>)
    [] OTHER ->
         Page("W", <<>>,
              << Url("https", <<"example", "com">>, <<"/", "b">>, << <<"id", "5">> >>, "") >>,
              <<>>)

\* what the stages of _process_url did for the current URL
Blank ==
  [robots |-> "none", fetch |-> "none", raw |-> "none", parse |-> "none",
   extract |-> "none", fails |-> {}, run |-> <<>>,
   result |-> ExtractionResult(NoText, <<>>, <<>>, <<>>),
   links |-> <<>>, nerr |-> 0, success |-> FALSE]

\* the entry add_error appends: {"url": url, "error": error}
Error(u, kind, status, text) ==
  [url |-> u, error |-> <<kind, status, text>>]

\* how the _process_url call described by stage st ended
Outcome(st) ==
  IF st.robots = "blocked" THEN "blocked"
  ELSE IF st.fetch = "bad" THEN "fetch_failed"
  ELSE IF st.parse = "raised" THEN "parse_failed"
  ELSE IF st.success THEN "processed"
  ELSE "open"

\* Crawler.__init__ and DataStructurer.__init__
CrawlerInit ==
  /\ cpc = "init"
  /\ cur = NoEntry
  /\ pages_crawled = 0
  /\ errors = <<>>
  /\ pages = <<>>
  /\ stage = Blank
  /\ trace = <<>>
  /\ fetched = <<>>

\* crawl() up to the while loop: the seed is added (lines 58-75)
crawl_begin ==
  /\ cpc = "init"
  /\ add_url(start_url, 0)
  /\ pages_crawled' = 0
  /\ cpc' = "loop"
  /\ UNCHANGED <<nops, pvars, rvars, probe, xvars, cur, errors, pages, stage, trace, fetched>>

\* variant of the loop test that lets the counter pass page_limit
crawl_loop_over ==
  LET entry == PopLoop(queue, 0)[2]
  IN  /\ cpc = "loop"
      /\ IF pages_crawled <= page_limit
         THEN /\ get_next
              /\ cpc' = IF entry = NoEntry THEN "done" ELSE "robots"
              /\ cur' = entry
         ELSE /\ cpc' = "done"
              /\ UNCHANGED <<queue, visited, enqueued, log, marked, last, cur>>
      /\ UNCHANGED <<nops, pvars, rvars, probe, xvars, pages_crawled, errors, pages, stage,
                     trace, fetched>>

\* the loop test and get_next (lines 77-83); set_end_time when the loop ends
crawl_loop ==
  LET entry == PopLoop(queue, 0)[2]
  IN  /\ cpc = "loop"
      /\ IF pages_crawled < page_limit
         THEN /\ get_next
              /\ cpc' = IF entry = NoEntry THEN "done" ELSE "robots"
              /\ cur' = entry
         ELSE /\ cpc' = "done"
              /\ UNCHANGED <<queue, visited, enqueued, log, marked, last, cur>>
      /\ UNCHANGED <<nops, pvars, rvars, probe, xvars, pages_crawled, errors, pages, stage,
                     trace, fetched>>

\* variant of the robots check in which a check that raises skips the URL
after_robots_skip ==
  IF rlast'.raised \/ ~rlast'.allowed
  THEN /\ stage' = [stage EXCEPT !.robots = IF rlast'.raised THEN "raised" ELSE "blocked"]
       /\ cpc' = "mark"
  ELSE /\ stage' = [stage EXCEPT !.robots =
                      IF robots_cache'[Domain(cur.url)].loaded THEN "allowed"
                      ELSE "unavailable"]
       /\ cpc' = "fetch"

\* variant of the robots check that goes on to the fetch whatever can_fetch says
after_robots_open ==
  /\ stage' = [stage EXCEPT !.robots =
                 IF rlast'.raised THEN "raised"
                 ELSE IF ~rlast'.allowed THEN "blocked"
                 ELSE IF robots_cache'[Domain(cur.url)].loaded THEN "allowed"
                 ELSE "unavailable"]
  /\ cpc' = "fetch"

\* _process_url lines 113-118, once can_fetch has ended as rlast' tells
after_robots ==
  IF rlast'.raised
  THEN /\ stage' = [stage EXCEPT !.robots = "raised"]
       /\ cpc' = "fetch"
  ELSE IF ~rlast'.allowed
  THEN /\ stage' = [stage EXCEPT !.robots = "blocked"]
       /\ cpc' = "mark"
  ELSE /\ stage' = [stage EXCEPT !.robots =
                      IF robots_cache'[Domain(cur.url)].loaded THEN "allowed"
                      ELSE "unavailable"]
       /\ cpc' = "fetch"

\* _process_url is entered: the robots check (lines 111-113)
crawl_robots(x) ==
  /\ cpc = "robots"
  /\ IF respect_robots
     THEN /\ can_fetch(cur.url, x)
          /\ IF rpc' = NoCall
             THEN after_robots
             ELSE /\ cpc' = "robots_wait"
                  /\ UNCHANGED stage
     ELSE /\ ~x
          /\ cpc' = "fetch"
          /\ UNCHANGED <<rvars, stage>>
  /\ UNCHANGED <<fvars, pvars, probe, xvars, cur, pages_crawled, errors, pages, trace, fetched>>

\* the robots.txt GET of the check is over
crawl_robots_done(out, x) ==
  /\ cpc = "robots_wait"
  /\ robots_get_done(out, x)
  /\ after_robots
  /\ UNCHANGED <<fvars, pvars, probe, xvars, cur, pages_crawled, errors, pages, trace, fetched>>

\* line 122: fetcher.fetch(url) is called
crawl_fetch ==
  /\ cpc = "fetch"
  /\ fetch_call("crawl")
  /\ fetched' = Append(fetched, cur.url)
  /\ stage' = [stage EXCEPT !.fetch = "called"]
  /\ cpc' = "fetching"
  /\ UNCHANGED <<fvars, rvars, probe, xvars, cur, pages_crawled, errors, pages, trace>>

\* variant of the parse stage whose handler records no error
crawl_fetched_silent(raw, parse_ok, fails, run) ==
  LET res == returned["crawl"]
      ix  == image_extract(SitePage(cur.url).images, cur.url, run, seen_urls, seen_hashes)
      r   == pipeline_run(SitePage(cur.url), fails, ix.records)
  IN  /\ cpc = "fetching"
      /\ pc["crawl"] = "idle"
      /\ Len(run) = IF ok(res) /\ parse_ok /\ "image" \notin fails /\ image_download
                    THEN Len(find_image_urls(SitePage(cur.url).images, seen_urls).found)
                    ELSE 0
      /\ IF ~ok(res)
         THEN /\ raw = "none" /\ parse_ok /\ fails = {}
              /\ errors' = Append(errors,
                             Error(cur.url, "HTTP", res.status_code,
                                   IF res.error # NoError THEN res.error ELSE "Bad status"))
              /\ stage' = [stage EXCEPT !.fetch = "bad", !.nerr = @ + 1]
              /\ cpc' = "mark"
              /\ UNCHANGED <<pages, ivars>>
         ELSE /\ raw = "none" <=> ~save_raw_html
              /\ IF ~parse_ok
                 THEN /\ fails = {}
                      /\ stage' = [stage EXCEPT !.fetch = "ok", !.raw = raw,
                                                !.parse = "raised"]
                      /\ cpc' = "mark"
                      /\ UNCHANGED <<errors, pages, ivars>>
                 ELSE /\ stage' = [stage EXCEPT !.fetch = "ok", !.raw = raw, !.parse = "ok",
                                                !.extract = "done", !.fails = fails,
                                                !.run = run,
                                                !.result = r, !.links = r.internal_links]
                      /\ IF "image" \in fails
                         THEN UNCHANGED <<seen_urls, seen_hashes, downloads, checks>>
                         ELSE /\ seen_urls' = ix.seen
                              /\ seen_hashes' = ix.hashes
                              /\ downloads' = IF image_download THEN downloads \o ix.found
                                              ELSE downloads
                              /\ checks' = checks \o ix.checks
                      /\ pages' = IF r.text_data # NoText
                                  THEN Append(pages, [url |-> cur.url, text |-> r.text_data])
                                  ELSE pages
                      /\ images' = images \o r.images
                      /\ external_links' = external_links \o r.external_links
                      /\ cpc' = "enqueue"
                      /\ UNCHANGED <<errors, itasks>>
      /\ UNCHANGED <<fvars, pvars, rvars, probe, jvars, avars, config, doc, extracted, cur, pages_crawled,
                     trace, fetched>>

\* fetch() has returned: lines 128-173.  raw tells what RawStorage.save did
\* (it catches its own exceptions and returns None), parse_ok whether
\* HtmlParser.parse returned, fails which extractors raise, run how the
\* image downloads of the page end
crawl_fetched(raw, parse_ok, fails, run) ==
  LET res == returned["crawl"]
      ix  == image_extract(SitePage(cur.url).images, cur.url, run, seen_urls, seen_hashes)
      r   == pipeline_run(SitePage(cur.url), fails, ix.records)
  IN  /\ cpc = "fetching"
      /\ pc["crawl"] = "idle"
      /\ Len(run) = IF ok(res) /\ parse_ok /\ "image" \notin fails /\ image_download
                    THEN Len(find_image_urls(SitePage(cur.url).images, seen_urls).found)
                    ELSE 0
      /\ IF ~ok(res)
         THEN /\ raw = "none" /\ parse_ok /\ fails = {}
              /\ errors' = Append(errors,
                             Error(cur.url, "HTTP", res.status_code,
                                   IF res.error # NoError THEN res.error ELSE "Bad status"))
              /\ stage' = [stage EXCEPT !.fetch = "bad", !.nerr = @ + 1]
              /\ cpc' = "mark"
              /\ UNCHANGED <<pages, ivars>>
         ELSE /\ raw = "none" <=> ~save_raw_html
              /\ IF ~parse_ok
                 THEN /\ fails = {}
                      /\ errors' = Append(errors, Error(cur.url, "Parse error", 0, ""))
                      /\ stage' = [stage EXCEPT !.fetch = "ok", !.raw = raw,
                                                !.parse = "raised", !.nerr = @ + 1]
                      /\ cpc' = "mark"
                      /\ UNCHANGED <<pages, ivars>>
                 ELSE /\ stage' = [stage EXCEPT !.fetch = "ok", !.raw = raw, !.parse = "ok",
                                                !.extract = "done", !.fails = fails,
                                                !.run = run,
                                                !.result = r, !.links = r.internal_links]
                      /\ IF "image" \in fails
                         THEN UNCHANGED <<seen_urls, seen_hashes, downloads, checks>>
                         ELSE /\ seen_urls' = ix.seen
                              /\ seen_hashes' = ix.hashes
                              /\ downloads' = IF image_download THEN downloads \o ix.found
                                              ELSE downloads
                              /\ checks' = checks \o ix.checks
                      /\ pages' = IF r.text_data # NoText
                                  THEN Append(pages, [url |-> cur.url, text |-> r.text_data])
                                  ELSE pages
                      /\ images' = images \o r.images
                      /\ external_links' = external_links \o r.external_links
                      /\ cpc' = "enqueue"
                      /\ UNCHANGED <<errors, itasks>>
      /\ UNCHANGED <<fvars, pvars, rvars, probe, jvars, avars, config, doc, extracted, cur, pages_crawled,
                     trace, fetched>>

\* variant of the loop over internal_links that passes the page's own depth
crawl_enqueue_same_depth ==
  /\ cpc = "enqueue"
  /\ IF stage.links # <<>>
     THEN /\ add_url(Head(stage.links), cur.depth)
          /\ stage' = [stage EXCEPT !.links = Tail(@)]
          /\ cpc' = "enqueue"
     ELSE /\ stage' = [stage EXCEPT !.success = TRUE]
          /\ cpc' = "mark"
          /\ UNCHANGED <<queue, visited, enqueued, log, marked, last>>
  /\ UNCHANGED <<nops, pvars, rvars, probe, xvars, cur, pages_crawled, errors, pages, trace, fetched>>

\* lines 176-184: one turn of the loop over internal_links, or return True
crawl_enqueue ==
  /\ cpc = "enqueue"
  /\ IF stage.links # <<>>
     THEN /\ add_url(Head(stage.links), cur.depth + 1)
          /\ stage' = [stage EXCEPT !.links = Tail(@)]
          /\ cpc' = "enqueue"
     ELSE /\ stage' = [stage EXCEPT !.success = TRUE]
          /\ cpc' = "mark"
          /\ UNCHANGED <<queue, visited, enqueued, log, marked, last>>
  /\ UNCHANGED <<nops, pvars, rvars, probe, xvars, cur, pages_crawled, errors, pages, trace, fetched>>

\* variant of the loop tail that marks only the pages that were processed
crawl_mark_success_only ==
  /\ cpc = "mark"
  /\ pages_crawled' = IF stage.success THEN pages_crawled + 1 ELSE pages_crawled
  /\ IF stage.success
     THEN mark_visited(cur.url)
     ELSE UNCHANGED <<queue, visited, enqueued, log, marked, last>>
  /\ trace' = Append(trace, [url |-> cur.url, robots |-> stage.robots,
                              outcome |-> Outcome(stage)])
  /\ stage' = Blank
  /\ cur' = NoEntry
  /\ cpc' = "loop"
  /\ UNCHANGED <<nops, pvars, rvars, probe, xvars, errors, pages, fetched>>

\* _process_url has returned: lines 92-96
crawl_mark ==
  /\ cpc = "mark"
  /\ pages_crawled' = IF stage.success THEN pages_crawled + 1 ELSE pages_crawled
  /\ mark_visited(cur.url)
  /\ trace' = Append(trace, [url |-> cur.url, robots |-> stage.robots,
                              outcome |-> Outcome(stage)])
  /\ stage' = Blank
  /\ cur' = NoEntry
  /\ cpc' = "loop"
  /\ UNCHANGED <<nops, pvars, rvars, probe, xvars, errors, pages, fetched>>

\* DataStructurer.generate_report
generate_report ==
  [total_pages |-> Len(pages), failed_pages |-> Len(errors),
   total_images |-> Len(images),
   external_links |-> Cardinality({ external_links[i] : i \in DOMAIN external_links }),
   errors |-> SubSeq(errors, 1, IF Len(errors) < 100 THEN Len(errors) ELSE 100)]

\* JobManager.run_async after crawler.crawl() has returned: export and report
job_report ==
  /\ cpc = "done"
  /\ cpc' = "reported"
  /\ UNCHANGED <<fvars, pvars, rvars, probe, xvars, cur, pages_crawled, errors, pages, stage,
                 trace, fetched>>

\* the asyncio.sleep a task is in ends: the clock has reached its wake time
sleep_over(t) ==
  /\ pc[t] \in {"rate_sleep", "backoff"}
  /\ now < wake[t]
  /\ now' = wake[t]
  /\ UNCHANGED <<last_request_time, sem, pc, attempt, last_error, wake, result,
                 returned, raised, got, dynamic, starts, calls>>
  /\ UNCHANGED <<fvars, ovars>>

\* the parts of the job a specification does not drive, as constructed
RestInit == RobotsInit /\ CrawlerInit /\ ExtractInit /\ probe = NoUrl

Init == FrontierInit /\ FetcherInit({"crawl"}, 0) /\ RestInit

Next ==
  \/ \E u \in SampleUrls, d \in Depths : Step /\ add_url(u, d)
  \/ Step /\ get_next
  \/ \E u \in SampleUrls : Step /\ mark_visited(u)

Spec == Init /\ [][Next]_vars

\* the fetcher of one job, called by the crawl loop only
FetchInit ==
  FrontierInit /\ RestInit /\ \E t0 \in {0, rate_limit} : FetcherInit({"crawl"}, t0)

FetchNext ==
  \/ \E t \in DOMAIN pc : fetch(t)
  \/ \E t \in DOMAIN pc : rate_limit_wake(t)
  \/ \E t \in DOMAIN pc, r \in StaticResponses : get_returns(t, r)
  \/ \E t \in DOMAIN pc, e \in ErrorTexts : get_raises(t, e)
  \/ \E t \in DOMAIN pc : backoff_wake(t)
  \/ \E t \in DOMAIN pc, r \in DynamicOutcomes : dynamic_returns(t, r)
  \/ Tick

FetchSpec == FetchInit /\ [][FetchNext]_vars

\* one fetcher shared by concurrently running fetch() callers
ConcInit ==
  FrontierInit /\ RestInit /\ \E t0 \in {0, rate_limit} : FetcherInit(Callers, t0)

ConcNext ==
  \/ \E t \in DOMAIN pc : fetch(t)
  \/ \E t \in DOMAIN pc : rate_limit_wake(t)
  \/ \E t \in DOMAIN pc : sem_acquire(t)
  \/ \E t \in DOMAIN pc, r \in StaticResponses : get_returns(t, r)
  \/ \E t \in DOMAIN pc, e \in ErrorTexts : get_raises(t, e)
  \/ \E t \in DOMAIN pc : backoff_wake(t)
  \/ \E t \in DOMAIN pc, r \in DynamicOutcomes : dynamic_returns(t, r)
  \/ Tick

ConcSpec == ConcInit /\ [][ConcNext]_vars

\* URLs put together from the spellings normalize_url rewrites
ProbeUrls ==
  { Url(sc, n, p, q, f) :
      sc \in {"http", "https"},
      n \in { <<"example", "com">>, <<"Example", "COM">> },
      p \in { <<>>, <<"/", "a">>, <<"/", "/", "a">>, <<"/", "a", " ">> },
      q \in { <<>>, << <<"utm_source", "x">> >>, << <<"id", "5">> >>,
               << <<"a", "1">>, <<"b", "2">>, <<"a", "3">> >> },
      f \in {"", "top"} }

\* a frontier that is offered one URL, its normalized form included, pops,
\* and marks visited what get_next returned, as the crawl loop does
NormInit == FrontierInit /\ FetcherInit({"crawl"}, 0) /\ RobotsInit /\ CrawlerInit
              /\ ExtractInit
              /\ probe \in ProbeUrls

NormNext ==
  \/ \E d \in 0 .. 1 : Step /\ add_url(probe, d)
  \/ \E d \in 0 .. 1 : Step /\ normalize_url(probe) # NoUrl /\ add_url(normalize_url(probe), d)
  \/ Step /\ get_next
  \/ Step /\ last.op = "get_next" /\ last.ret /\ mark_visited(last.entry.url)

NormSpec == NormInit /\ [][NormNext]_vars

\* a RobotsChecker asked about URLs in any order, one call at a time
RobotsSpecInit == FrontierInit /\ FetcherInit({"crawl"}, 0) /\ RestInit

RobotsNext ==
  \/ \E u \in RobotsUrls, x \in BOOLEAN :
       can_fetch(u, x) /\ UNCHANGED <<fvars, pvars, cvars, probe, xvars>>
  \/ \E u \in RobotsUrls :
       get_crawl_delay(u) /\ UNCHANGED <<fvars, pvars, cvars, probe, xvars>>
  \/ \E out \in RobotsOutcomes, x \in BOOLEAN :
       robots_get_done(out, x) /\ UNCHANGED <<fvars, pvars, cvars, probe, xvars>>

RobotsSpec == RobotsSpecInit /\ [][RobotsNext]_vars

\* error texts the static GET raises with in a crawl
CrawlErrors == {"timeout"}

\* how the image downloads of a page of the site end: every image of the
\* site is served and decodes
SiteImageRuns == UNION { ImageRuns(n, {"decoded"}) : n \in 0 .. MaxImgs }

\* one job: JobManager.run_async runs Crawler.crawl on the site
CrawlInit == FrontierInit /\ FetcherInit({"crawl"}, 0) /\ RestInit

CrawlNext ==
  \/ crawl_begin
  \/ crawl_loop
  \/ \E x \in BOOLEAN : crawl_robots(x)
  \/ \E out \in RobotsOutcomes, x \in BOOLEAN : crawl_robots_done(out, x)
  \/ crawl_fetch
  \/ rate_limit_wake("crawl")
  \/ \E r \in StaticResponses : get_returns("crawl", r)
  \/ \E e \in CrawlErrors : get_raises("crawl", e)
  \/ backoff_wake("crawl")
  \/ \E r \in DynamicOutcomes : dynamic_returns("crawl", r)
  \/ sleep_over("crawl")
  \/ /\ cpc = "fetching"
     /\ \E raw \in {"none", "saved", "failed"}, parse_ok \in BOOLEAN,
           fails \in SUBSET Extractors, run \in SiteImageRuns :
          crawl_fetched(raw, parse_ok, fails, run)
  \/ crawl_enqueue
  \/ crawl_mark
  \/ job_report

CrawlSpec == CrawlInit /\ [][CrawlNext]_vars

\* the same job on its event loop: the task runs whenever it can, every
\* sleep ends and every request answers or times out
CrawlFairSpec == CrawlSpec /\ WF_vars(CrawlNext)

\* number of turns of the crawl loop explored in the end-to-end scenario
MaxPasses == 2

\* how the image downloads of a page of the scenario end: the image files
\* of its site are well-formed, a download delivers the image or fails
AnyImageRuns == UNION { ImageRuns(n, {"decoded", "failed"}) : n \in 0 .. MaxImgs }

\* the end-to-end scenario: one job on https://example.com/, whose home
\* page has two images (one below the minimum size), two internal links and
\* one external link
E2EInit ==
  /\ FrontierInit /\ FetcherInit({"crawl"}, 0) /\ RobotsInit /\ CrawlerInit
  /\ probe = NoUrl /\ ImageInit /\ JobsInit /\ ApiInit
  /\ config = E2EConfig
  /\ doc = <<>>
  /\ extracted = NoOutput

E2ENext ==
  \/ crawl_begin
  \/ Len(trace) < MaxPasses /\ crawl_loop
  \/ \E x \in BOOLEAN : crawl_robots(x)
  \/ \E out \in RobotsOutcomes, x \in BOOLEAN : crawl_robots_done(out, x)
  \/ crawl_fetch
  \/ rate_limit_wake("crawl")
  \/ \E r \in StaticResponses : get_returns("crawl", r)
  \/ \E e \in CrawlErrors : get_raises("crawl", e)
  \/ backoff_wake("crawl")
  \/ \E r \in DynamicOutcomes : dynamic_returns("crawl", r)
  \/ sleep_over("crawl")
  \/ /\ cpc = "fetching"
     /\ \E raw \in {"none", "saved", "failed"}, parse_ok \in BOOLEAN,
           fails \in SUBSET Extractors, run \in AnyImageRuns :
          crawl_fetched(raw, parse_ok, fails, run)
  \/ crawl_enqueue
  \/ crawl_mark
  \/ job_report

E2ESpec == E2EInit /\ [][E2ENext]_vars

\* one job on http://example.com/t, whose page links to /c and to "/c #top"
TwinInit ==
  /\ FrontierInit /\ FetcherInit({"crawl"}, 0) /\ RobotsInit /\ CrawlerInit
  /\ probe = NoUrl /\ ImageInit /\ JobsInit /\ ApiInit
  /\ config = TwinConfig
  /\ doc = <<>>
  /\ extracted = NoOutput

TwinSpec == TwinInit /\ [][CrawlNext]_vars

\* number of turns of the crawl loop explored on the three-level site
MaxTurns == 4

\* one job on http://example.com/r: /r links to /r1 and /r2, /r1 to /r3 and
\* /r2, every other page to /b?id=5.  A page is blocked by robots, answers
\* with a bad status, fails to parse, loses its links to a failing link
\* extractor, or is processed; requests do not raise
DeepInit ==
  /\ FrontierInit /\ FetcherInit({"crawl"}, 0) /\ RobotsInit /\ CrawlerInit
  /\ probe = NoUrl /\ ImageInit /\ JobsInit /\ ApiInit
  /\ config = DeepConfig
  /\ doc = <<>>
  /\ extracted = NoOutput

DeepNext ==
  \/ crawl_begin
  \/ Len(trace) < MaxTurns /\ crawl_loop
  \/ \E x \in BOOLEAN : crawl_robots(x)
  \/ \E out \in RobotsOutcomes, x \in BOOLEAN : crawl_robots_done(out, x)
  \/ crawl_fetch
  \/ rate_limit_wake("crawl")
  \/ \E r \in StaticResponses : get_returns("crawl", r)
  \/ \E r \in DynamicOutcomes : dynamic_returns("crawl", r)
  \/ sleep_over("crawl")
  \/ /\ cpc = "fetching"
     /\ \E parse_ok \in BOOLEAN, fails \in {{}, {"link"}} :
          crawl_fetched("saved", parse_ok, fails, <<>>)
  \/ crawl_enqueue
  \/ crawl_mark
  \/ job_report

DeepSpec == DeepInit /\ [][DeepNext]_vars

\* number of steps the jobs take together
MaxJobSteps == 3

\* URLFrontier.add_url on the frontier object fr: the object afterwards and
\* what the call returned
frontier_add_url(fr, url, depth) ==
  LET norm     == normalize_url(url)
      url_hash == Hash(norm)
      accepted == /\ norm # NoUrl
                  /\ depth <= max_depth
                  /\ url_hash \notin fr.visited /\ url_hash \notin fr.enqueued
                  /\ domain_allowed(norm)
  IN  [obj |-> IF accepted
               THEN [fr EXCEPT !.queue = heappush(@, QueueEntry(depth, norm)),
                               !.enqueued = @ \cup {url_hash}]
               ELSE fr,
       decision |-> [op |-> "add_url", url |-> url, depth |-> depth, ret |-> accepted]]

\* the loop of URLFrontier.get_next on a heap, with the visited set vis
RECURSIVE pop_unvisited(_, _)
pop_unvisited(h, vis) ==
  IF h = <<>> THEN [queue |-> h, entry |-> NoEntry]
  ELSE IF Hash(heappop_item(h).url) \in vis THEN pop_unvisited(heappop_rest(h), vis)
  ELSE [queue |-> heappop_rest(h), entry |-> heappop_item(h)]

\* URLFrontier.get_next followed by mark_visited of the URL it returned, as
\* the crawl loop calls them (crawler.py 78-96)
frontier_next(fr) ==
  LET r    == pop_unvisited(fr.queue, fr.visited)
      n    == normalize_url(r.entry.url)
      norm == IF n # NoUrl THEN n ELSE r.entry.url
  IN  [obj |-> IF r.entry = NoEntry THEN [fr EXCEPT !.queue = r.queue]
               ELSE [fr EXCEPT !.queue = r.queue, !.visited = @ \cup {Hash(norm)}],
       decision |-> [op |-> "get_next", entry |-> r.entry]]

\* RobotsChecker.can_fetch on the checker object rb; out is what the GET of
\* robots.txt does if the domain is not cached
robots_can_fetch(rb, u, out) ==
  LET domain == Domain(u)
      cached == domain \in DOMAIN rb.cache
      rp     == IF cached THEN rb.cache[domain]
                ELSE IF out.status = 200 /\ ~out.raises THEN out.file
                ELSE NoParser
  IN  [obj |-> IF cached THEN rb ELSE [rb EXCEPT !.cache = Store(@, domain, rp)],
       decision |-> [op |-> "can_fetch", url |-> u, sent |-> ~cached,
                     ret |-> IF rp.loaded THEN rp_can_fetch(rp, u) ELSE TRUE]]

\* ImageExtractor.extract on the extractor object im for a page with the
\* one <img> tag t, whose download ends as outcome tells
images_extract(im, t, outcome) ==
  LET ix == image_extract(<<t>>, "page", IF img_src(t) \in im.seen_urls \/ img_src(t) \in {"", "data:"}
                                         THEN <<>>
                                         ELSE << [task |-> 1, outcome |-> outcome] >>,
                          im.seen_urls, im.seen_hashes)
  IN  [obj |-> [seen_urls |-> ix.seen, seen_hashes |-> ix.hashes],
       decision |-> [op |-> "extract", found |-> ix.found, records |-> ix.records]]

\* the process w after job j ran a call on its object of class cls, r being
\* what the call did
Ran(w, j, cls, r) ==
  [heap |-> [w.heap EXCEPT ![ObjectOf(j, cls)] = r.obj],
   log  |-> [w.log EXCEPT ![j] = Append(@, r.decision)]]

\* the steps taken so far
JobSteps == Len(jobs.log[1]) + Len(jobs.log[2])

\* job j adds a URL to its frontier
job_add_url(j, url, depth) ==
  /\ JobSteps < MaxJobSteps
  /\ jobs' = Ran(jobs, j, "frontier",
                 frontier_add_url(jobs.heap[ObjectOf(j, "frontier")], url, depth))
  /\ solo' = [solo EXCEPT ![j] =
                Ran(@, j, "frontier",
                    frontier_add_url(@.heap[ObjectOf(j, "frontier")], url, depth))]
  /\ UNCHANGED <<fvars, pvars, rvars, cvars, probe, config, doc, extracted, ivars, avars>>

\* job j pops the next URL and marks it visited
job_next(j) ==
  /\ JobSteps < MaxJobSteps
  /\ jobs' = Ran(jobs, j, "frontier", frontier_next(jobs.heap[ObjectOf(j, "frontier")]))
  /\ solo' = [solo EXCEPT ![j] =
                Ran(@, j, "frontier", frontier_next(@.heap[ObjectOf(j, "frontier")]))]
  /\ UNCHANGED <<fvars, pvars, rvars, cvars, probe, config, doc, extracted, ivars, avars>>

\* job j asks its robots checker about a URL
job_can_fetch(j, u, out) ==
  /\ JobSteps < MaxJobSteps
  /\ jobs' = Ran(jobs, j, "robots",
                 robots_can_fetch(jobs.heap[ObjectOf(j, "robots")], u, out))
  /\ solo' = [solo EXCEPT ![j] =
                Ran(@, j, "robots",
                    robots_can_fetch(@.heap[ObjectOf(j, "robots")], u, out))]
  /\ UNCHANGED <<fvars, pvars, rvars, cvars, probe, config, doc, extracted, ivars, avars>>

\* job j runs its image extractor on a page
job_extract_images(j, t, outcome) ==
  /\ JobSteps < MaxJobSteps
  /\ jobs' = Ran(jobs, j, "images",
                 images_extract(jobs.heap[ObjectOf(j, "images")], t, outcome))
  /\ solo' = [solo EXCEPT ![j] =
                Ran(@, j, "images",
                    images_extract(@.heap[ObjectOf(j, "images")], t, outcome))]
  /\ UNCHANGED <<fvars, pvars, rvars, cvars, probe, config, doc, extracted, ivars, avars>>

\* URLs and <img> tags the jobs meet
JobUrls ==
  { Url("http", <<"example", "com">>, <<"/", "a">>, <<>>, ""),
    Url("https", <<"example", "com">>, <<"/", "b">>, << <<"id", "5">> >>, "") }

JobImgs == { Img("/logo.png", "", ""), Img("", "/logo-copy.png", "/logo.png") }

\* two jobs of one process, their steps interleaved in any order; every job
\* is also run alone, in a process of its own, on the same inputs
JobsSpecInit ==
  /\ FrontierInit /\ FetcherInit({"crawl"}, 0) /\ RobotsInit /\ CrawlerInit
  /\ probe = NoUrl /\ ImageInit /\ JobsInit /\ ApiInit
  /\ config = DefaultConfig
  /\ doc = <<>>
  /\ extracted = NoOutput

JobsNext ==
  \/ \E j \in JobIds, u \in JobUrls, d \in 0 .. 1 : job_add_url(j, u, d)
  \/ \E j \in JobIds : job_next(j)
  \/ \E j \in JobIds, u \in JobUrls, out \in RobotsOutcomes : job_can_fetch(j, u, out)
  \/ \E j \in JobIds, t \in JobImgs, outcome \in {"decoded", "failed"} :
       job_extract_images(j, t, outcome)

JobsSpec == JobsSpecInit /\ [][JobsNext]_vars

\* POST /api/crawl: the entry is stored and _run_crawl scheduled as a
\* background task; id is the fresh uuid
submit_crawl(id) ==
  /\ btask[id] = "none"
  /\ id \notin DOMAIN registry
  /\ registry' = Store(registry, id, NewJob(id))
  /\ btask' = [btask EXCEPT ![id] = "scheduled"]
  /\ api_last' = ApiResponse("submit", id, 200)
  /\ UNCHANGED <<fvars, pvars, rvars, cvars, probe, config, doc, extracted, ivars, jvars>>

\* DELETE /api/jobs/{job_id}
delete_job(id) ==
  /\ IF id \notin DOMAIN registry
     THEN /\ api_last' = ApiResponse("delete", id, 404)
          /\ UNCHANGED registry
     ELSE IF registry[id].status = RUNNING
     THEN /\ api_last' = ApiResponse("delete", id, 400)
          /\ UNCHANGED registry
     ELSE /\ registry' = [x \in DOMAIN registry \ {id} |-> registry[x]]
          /\ api_last' = ApiResponse("delete", id, 200)
  /\ UNCHANGED btask
  /\ UNCHANGED <<fvars, pvars, rvars, cvars, probe, config, doc, extracted, ivars, jvars>>

\* _run_crawl starts: line 120, outside the try block; a missing entry is a
\* KeyError that ends the task
run_crawl_start(id) ==
  /\ btask[id] = "scheduled"
  /\ IF id \in DOMAIN registry
     THEN /\ registry' = [registry EXCEPT ![id].status = RUNNING]
          /\ btask' = [btask EXCEPT ![id] = "crawl"]
     ELSE /\ btask' = [btask EXCEPT ![id] = "raised"]
          /\ UNCHANGED registry
  /\ UNCHANGED api_last
  /\ UNCHANGED <<fvars, pvars, rvars, cvars, probe, config, doc, extracted, ivars, jvars>>

\* _run_crawl after "await crawler.crawl()": crawl, export, manifest and
\* report went through (raises = FALSE) or one of them raised; lines 127-145
run_crawl_end(id, raises) ==
  /\ btask[id] = "crawl"
  /\ IF id \in DOMAIN registry
     THEN /\ registry' =
               [registry EXCEPT ![id] =
                  IF raises
                  THEN [@ EXCEPT !.status = FAILED, !.error = "exc", !.completed_at = "now"]
                  ELSE [@ EXCEPT !.status = COMPLETED, !.completed_at = "now",
                                 !.report = "report"]]
          /\ btask' = [btask EXCEPT ![id] = "done"]
     ELSE /\ btask' = [btask EXCEPT ![id] = "raised"]
          /\ UNCHANGED registry
  /\ UNCHANGED api_last
  /\ UNCHANGED <<fvars, pvars, rvars, cvars, probe, config, doc, extracted, ivars, jvars>>

\* the API serving requests while background tasks run
ApiSpecInit ==
  /\ FrontierInit /\ FetcherInit({"crawl"}, 0) /\ RobotsInit /\ CrawlerInit
  /\ probe = NoUrl /\ ImageInit /\ JobsInit /\ ApiInit
  /\ config = DefaultConfig
  /\ doc = <<>>
  /\ extracted = NoOutput

ApiNext ==
  \/ \E id \in ApiJobIds : submit_crawl(id)
  \/ \E id \in ApiJobIds : delete_job(id)
  \/ \E id \in ApiJobIds : run_crawl_start(id)
  \/ \E id \in ApiJobIds, raises \in BOOLEAN : run_crawl_end(id, raises)

ApiSpec == ApiSpecInit /\ [][ApiNext]_vars

\* the event loop runs every background task that can run; the crawl of a
\* job ends or raises
ApiFairSpec ==
  /\ ApiSpec
  /\ \A id \in ApiJobIds :
       /\ WF_vars(run_crawl_start(id))
       /\ WF_vars(\E raises \in BOOLEAN : run_crawl_end(id, raises))

\* sequences of at most n elements of S
RECURSIVE SeqsUpTo(_, _)
SeqsUpTo(S, n) ==
  IF n = 0 THEN { <<>> }
  ELSE LET shorter == SeqsUpTo(S, n - 1)
       IN  shorter \cup { Append(l, x) : l \in shorter, x \in S }

\* the parts of the job the extractor specifications do not drive
IdleInit ==
  /\ FrontierInit /\ FetcherInit({"crawl"}, 0) /\ RobotsInit /\ CrawlerInit
  /\ probe = NoUrl /\ config = DefaultConfig /\ ImageInit /\ JobsInit /\ ApiInit

\* LinkExtractor.extract is applied to the document
extract_links ==
  /\ ~extracted.done
  /\ extracted' = [done |-> TRUE, links |-> link_extract(doc, page_url)]
  /\ UNCHANGED <<fvars, pvars, rvars, cvars, probe, jvars, avars, config, doc, ivars>>

\* a LinkExtractor handed a document with up to MaxAnchors <a href> tags
LinkInit == IdleInit /\ doc \in SeqsUpTo(Hrefs, MaxAnchors) /\ extracted = NoOutput

LinkNext == extract_links

LinkSpec == LinkInit /\ [][LinkNext]_vars

\* TextExtractor._get_headings is applied to the document
extract_headings ==
  /\ ~extracted.done
  /\ extracted' = [done |-> TRUE, headings |-> get_headings(doc)]
  /\ UNCHANGED <<fvars, pvars, rvars, cvars, probe, jvars, avars, config, doc, ivars>>

\* a TextExtractor handed a document with up to MaxTags heading tags
TextInit == IdleInit /\ doc \in SeqsUpTo(HeadingTags, MaxTags) /\ extracted = NoOutput

TextNext == extract_headings

TextSpec == TextInit /\ [][TextNext]_vars

\* the values of CrawlConfig.min_image_size a job is configured with
MinImageSizes == {50, 100, 150}

\* one ImageExtractor of a job run on up to MaxImagePages pages, one after
\* the other, each with up to MaxImgs <img> tags; the downloads of a page
\* end in any order
ImageSpecInit ==
  /\ FrontierInit /\ FetcherInit({"crawl"}, 0) /\ RobotsInit /\ CrawlerInit
  /\ probe = NoUrl /\ ImageInit /\ JobsInit /\ ApiInit
  /\ config \in { [DefaultConfig EXCEPT !.min_image_size = m, !.download_images = d] :
                     m \in MinImageSizes, d \in BOOLEAN }
  /\ doc = <<>>
  /\ extracted = [done |-> TRUE, page |-> 0, found |-> <<>>]

ImageNext ==
  \/ \E imgs \in SeqsUpTo(ImgTags, MaxImgs) :
       /\ extracted.done
       /\ extracted.page < MaxImagePages
       /\ image_extract_begin(imgs, extracted.page + 1)
       /\ UNCHANGED <<fvars, pvars, rvars, cvars, probe, jvars, avars, config, external_links>>
  \/ \E i \in 1 .. MaxImgs, outcome \in ImageOutcomes :
       /\ image_response(i, outcome)
       /\ UNCHANGED <<fvars, pvars, rvars, cvars, probe, jvars, avars, config, external_links>>
  \/ /\ image_extract_end
     /\ UNCHANGED <<fvars, pvars, rvars, cvars, probe, jvars, avars, config, external_links>>

ImageSpec == ImageSpecInit /\ [][ImageNext]_vars

\* ------------------------------------------------------------------------
\* Helpers for the frontier properties
\* ------------------------------------------------------------------------

Range(f) == { f[i] : i \in DOMAIN f }

Adds == { i \in DOMAIN log : log[i].op = "add" }

Pops == { i \in DOMAIN log : log[i].op = "pop" }

\* position in log at which add_url accepted the normalized URL u (0: never)
AddIndex(u) ==
  IF \E i \in Adds : log[i].url = u
  THEN CHOOSE i \in Adds : log[i].url = u
  ELSE 0

\* indices of the queue whose entry is not visited
Unvisited(h) == { i \in DOMAIN h : Hash(h[i].url) \notin visited }

\* the allow-list test of the claim, stated on a netloc: the lowercased host,
\* or that host without a leading "www." label, is in the allow-list
HostInAllowList(n) ==
  LET host == [i \in DOMAIN n |-> LowerLabel(n[i])]
  IN  \/ \E d \in allowed_domains_cfg :
           host = [i \in DOMAIN d |-> LowerLabel(d[i])]
      \/ /\ Len(host) > 1
         /\ host[1] = "www"
         /\ \E d \in allowed_domains_cfg :
              SubSeq(host, 2, Len(host)) = [i \in DOMAIN d |-> LowerLabel(d[i])]

\* ------------------------------------------------------------------------
\* C1: once mark_visited(u) has been called, get_next never afterwards
\* returns normalize(u), and add_url never afterwards returns True for a URL
\* whose normalized form is normalize(u).
\* ------------------------------------------------------------------------
C1_VisitedNeverDelivered ==
  /\ (last.op = "get_next" /\ last.ret)
       => \A u \in marked : normalize_url(u) # last.entry.url
  /\ (last.op = "add_url" /\ last.ret)
       => \A u \in marked : normalize_url(u) # log[Len(log)].url
  /\ \A u \in marked : normalize_url(u) # NoUrl => Hash(normalize_url(u)) \in visited

\* a queued URL was marked visited through a differently spelled URL, and
\* get_next has just discarded it and returned another entry
C1_Witness ==
  /\ last.op = "get_next"
  /\ last.ret
  /\ last.skipped > 0
  /\ \E u \in marked : /\ u # normalize_url(u)
                       /\ AddIndex(normalize_url(u)) # 0

\* ------------------------------------------------------------------------
\* C2: add_url returns True at most once per normalized URL (also after the
\* URL was popped and not yet marked visited), the queue never holds two
\* entries for one normalized URL, and get_next returns each normalized URL
\* at most once.
\* ------------------------------------------------------------------------
C2_NoDuplicates ==
  /\ \A i, j \in Adds : log[i].url = log[j].url => i = j
  /\ \A i, j \in Pops : log[i].url = log[j].url => i = j
  /\ \A i, j \in DOMAIN queue : queue[i].url = queue[j].url => i = j
  /\ \A i \in Pops : AddIndex(log[i].url) \in 1 .. (i - 1)
  /\ \A i \in DOMAIN queue : AddIndex(queue[i].url) # 0

\* the only URL ever enqueued was popped, is not visited, and add_url has
\* just rejected it again as a duplicate
C2_Witness ==
  /\ last.op = "add_url"
  /\ last.why = "duplicate"
  /\ visited = {}
  /\ queue = <<>>
  /\ Cardinality(enqueued) = 1
  /\ Cardinality(Pops) = 1

\* ------------------------------------------------------------------------
\* C3: get_next never returns an entry with depth > max_depth: add_url with
\* depth > max_depth returns False and queues nothing, while depth ==
\* max_depth is still accepted.
\* ------------------------------------------------------------------------
C3_DepthStep ==
  /\ (last'.op = "add_url" /\ last'.ret)
       => /\ Len(log') = Len(log) + 1
          /\ log'[Len(log')].op = "add"
          /\ log'[Len(log')].depth <= max_depth
  /\ (last'.op = "add_url" /\ ~last'.ret)
       => (queue' = queue /\ enqueued' = enqueued /\ log' = log)
  /\ \A u \in SampleUrls :
       ( /\ normalize_url(u) # NoUrl
         /\ Hash(normalize_url(u)) \notin (visited \cup enqueued)
         /\ HostInAllowList(u.netloc)
         /\ add_url(u, max_depth) )
       => (last'.ret /\ Len(queue') = Len(queue) + 1)

C3_DepthBound ==
  /\ [](\A i \in DOMAIN queue : queue[i].depth <= max_depth)
  /\ [](\A i \in DOMAIN log : log[i].depth <= max_depth)
  /\ []((last.op = "get_next" /\ last.ret) => last.entry.depth <= max_depth)
  /\ [][C3_DepthStep]_vars

\* an entry accepted at depth max_depth has been returned by get_next
C3_Witness ==
  /\ last.op = "get_next"
  /\ last.ret
  /\ last.entry.depth = max_depth

\* ------------------------------------------------------------------------
\* C4: get_next returns an entry whose depth is the minimum depth among the
\* queued entries that are not visited, discards the visited entries it
\* pops, and returns None exactly when no unvisited entry is queued.
\* ------------------------------------------------------------------------
C4_GetNextStep ==
  get_next =>
    LET unv     == Unvisited(queue)
        removed == Range(queue) \ Range(queue')
    IN  /\ last'.ret <=> unv # {}
        /\ last'.ret =>
             /\ last'.entry \in { queue[i] : i \in unv }
             /\ \A i \in unv : last'.entry.depth <= queue[i].depth
             /\ last'.entry \in removed
             /\ Len(queue') = Len(queue) - last'.skipped - 1
        /\ ~last'.ret => (queue' = <<>> /\ last'.skipped = Len(queue))
        /\ \A e \in removed : e = last'.entry \/ Hash(e.url) \in visited
        /\ Range(queue') \subseteq Range(queue)

C4_MinDepthPop == [][C4_GetNextStep]_vars

\* three entries were queued deepest first, one of depth 0 was marked
\* visited, and get_next discarded it and returned the shallowest of the rest
C4_Witness ==
  /\ last.op = "get_next"
  /\ last.ret
  /\ last.skipped = 1
  /\ last.entry.depth = 1
  /\ Len(queue) = 1
  /\ queue[1].depth = 2
  /\ AddIndex(queue[1].url) < AddIndex(last.entry.url)

\* ------------------------------------------------------------------------
\* C5 (as stated): for any interleaving of add_url and get_next calls the
\* depths returned by successive get_next calls are non-decreasing.
\* ------------------------------------------------------------------------
C5_Original ==
  \A i, j \in Pops : i < j => log[i].depth <= log[j].depth

\* C5 (amended): between two successive get_next returns, if every add_url
\* accepted in between has a depth not below the depth of the earlier
\* return, the later return's depth is not below the earlier one's.
C5_Amended ==
  \A i, j \in Pops :
    ( /\ i < j
      /\ \A k \in (i + 1) .. (j - 1) : log[k].op = "add" /\ log[k].depth >= log[i].depth )
    => log[i].depth <= log[j].depth

\* two successive returns with an add accepted in between, and a later
\* return deeper than the earlier one
C5_Witness ==
  \E i, j \in Pops :
    /\ j = i + 2
    /\ log[i + 1].op = "add"
    /\ log[i + 1].depth >= log[i].depth
    /\ log[j].depth > log[i].depth
    /\ log[j].url # log[i + 1].url

\* ------------------------------------------------------------------------
\* C6: among queued entries of equal depth, get_next returns them in the
\* order in which add_url accepted them: when get_next returns an entry, no
\* unvisited entry of the same depth that was accepted earlier is still
\* queued.
\* ------------------------------------------------------------------------
C6_FifoAmongEqualDepth ==
  (last.op = "get_next" /\ last.ret) =>
    \A i \in Unvisited(queue) :
      queue[i].depth = last.entry.depth
        => AddIndex(queue[i].url) > AddIndex(last.entry.url)

\* ------------------------------------------------------------------------
\* C7: add_url accepts a URL only if its lowercased host, or that host with
\* a leading "www." removed, is in allowed_domains; no queue entry and no
\* URL returned by get_next has a host outside the allow-list.
\* ------------------------------------------------------------------------
C7_OnlyAllowedHosts ==
  /\ \A i \in DOMAIN log : HostInAllowList(log[i].url.netloc)
  /\ \A i \in DOMAIN queue : HostInAllowList(queue[i].url.netloc)
  /\ (last.op = "get_next" /\ last.ret) => HostInAllowList(last.entry.url.netloc)

\* a www. host was accepted through its www.-stripped form and returned,
\* and a URL of a foreign host has just been rejected
C7_Witness ==
  /\ last.op = "add_url"
  /\ last.why = "domain"
  /\ \E i \in Pops : log[i].url.netloc[1] = "www"

\* ------------------------------------------------------------------------
\* C8: on one PageFetcher at most one static GET is in flight at any time,
\* for any number of concurrent fetch() callers: a GET starts only when no
\* other GET is in flight.
\* ------------------------------------------------------------------------
InFlight == { t \in DOMAIN pc : pc[t] = "in_get" }

C8_GetStartStep ==
  \A t \in DOMAIN pc :
    (pc[t] # "in_get" /\ pc'[t] = "in_get") => InFlight = {}

C8_OneGetInFlight ==
  /\ [](Cardinality(InFlight) <= 1)
  /\ [](sem = SemSlots - Cardinality(InFlight))
  /\ [][C8_GetStartStep]_vars

\* one caller is in its GET while another waits for the semaphore
C8_Witness ==
  \E t, u \in DOMAIN pc : pc[t] = "in_get" /\ pc[u] = "sem_wait"

\* ------------------------------------------------------------------------
\* C9: in the single-task crawl loop, two consecutive static dispatches of
\* one PageFetcher (across URLs and across retry attempts) start at least
\* rate_limit apart, measured from the start of the earlier one.
\* ------------------------------------------------------------------------
C9_DispatchSpacing ==
  Len(starts) = 2 => starts[2] - starts[1] >= rate_limit

\* the second URL's first attempt raised and its retry was dispatched
\* exactly rate_limit after that attempt
C9_Witness ==
  /\ calls = 2
  /\ Len(starts) = 2
  /\ starts[2] - starts[1] = rate_limit
  /\ \E t \in DOMAIN pc : pc[t] = "in_get" /\ Len(raised[t]) = 1

\* ------------------------------------------------------------------------
\* C10: _fetch_with_retries makes at most max_retries + 1 static attempts,
\* returns the result of the first attempt that does not raise, and when
\* every attempt raises returns a FetchResult with status_code 0, empty
\* html and the last attempt's error text; the call always ends by
\* returning.
\* ------------------------------------------------------------------------
Attempts(t) == Len(raised[t]) + (IF got[t] # NoResponse THEN 1 ELSE 0)

C10_RetriesResult ==
  \A t \in DOMAIN pc :
    /\ Attempts(t) <= max_retries + 1
    /\ got[t] # NoResponse =>
         result[t] = FetchResult(got[t].status, got[t].html, "static", NoError)
    /\ (got[t] = NoResponse /\ result[t] # NoResult) =>
         /\ Len(raised[t]) = max_retries + 1
         /\ result[t] = FetchResult(0, EmptyHtml, "static", raised[t][Len(raised[t])])
    /\ (pc[t] = "idle" /\ Attempts(t) > 0) =>
         (result[t] # NoResult /\ returned[t] # NoResult)
    /\ (Len(raised[t]) = max_retries + 1 /\ pc[t] # "backoff") =>
         (pc[t] = "idle" /\ result[t].status_code = 0)

\* every attempt raised, with different error texts, and the call returned
C10_Witness ==
  \E t \in DOMAIN pc :
    /\ pc[t] = "idle"
    /\ Len(raised[t]) = max_retries + 1
    /\ raised[t][1] # raised[t][Len(raised[t])]
    /\ returned[t].status_code = 0

\* ------------------------------------------------------------------------
\* C11 (as stated): a fetch whose response has an HTTP status outside
\* [200,400) is retried with backoff, so such a status is surfaced as a page
\* error only after max_retries + 1 attempts were made.
\* ------------------------------------------------------------------------
BadStatus(st) == ~(200 <= st /\ st < 400)

C13_RobotsOnce ==
  /\ \A i, j \in DOMAIN requests : i # j => requests[i] # requests[j]
  /\ \A i \in DOMAIN requests :
       (rpc = NoCall \/ i < Len(requests)) =>
         /\ requests[i] \in DOMAIN robots_cache
         /\ requests[i] \in DOMAIN robots_delays
  /\ \A d \in DOMAIN robots_cache : d \in Range(requests)
  /\ (rpc = NoCall /\ rlast.sent) => Domain(rlast.url) = requests[Len(requests)]

\* robots.txt of example.com was unavailable, and a later call about another
\* URL of that domain was answered from the cached sentinel without a request
C13_Witness ==
  /\ rpc = NoCall
  /\ requests = << <<"example", "com">> >>
  /\ robots_cache[<<"example", "com">>] = NoParser
  /\ rlast.op = "get_crawl_delay"
  /\ ~rlast.sent
  /\ Domain(rlast.url) = <<"example", "com">>
  /\ rlast.url.scheme = "https"

\* ------------------------------------------------------------------------
\* Helpers for the crawl loop properties
\* ------------------------------------------------------------------------

\* positions of trace with the given outcome
Ended_as(o) == { i \in DOMAIN trace : trace[i].outcome = o }

\* number of error entries recorded for URL u
ErrorsFor(u) == Cardinality({ i \in DOMAIN errors : errors[i].url = u })

\* number of times get_next returned URL u
PopsOf(u) == Cardinality({ i \in Pops : log[i].url = u })

\* the robots rules cached for u's domain disallow u
Disallowed(u) ==
  /\ Domain(u) \in DOMAIN robots_cache
  /\ robots_cache[Domain(u)].loaded
  /\ ~rp_can_fetch(robots_cache[Domain(u)], u)

\* ------------------------------------------------------------------------
\* C14: the robots check fails open: when robots.txt is unavailable
\* can_fetch returns True, and when the robots check raises inside the crawl
\* loop the URL is still fetched: it is neither skipped nor recorded as an
\* error.
\* ------------------------------------------------------------------------
C14_FailOpen ==
  /\ (rpc = NoCall /\ rlast.op = "can_fetch"
        /\ ~robots_cache[Domain(rlast.url)].loaded)
       => (rlast.allowed /\ ~rlast.raised)
  /\ stage.robots \in {"raised", "unavailable"} =>
       /\ cpc \in {"fetch", "fetching", "enqueue", "mark"}
       /\ cpc # "fetch" => (fetched # <<>> /\ fetched[Len(fetched)] = cur.url)
       /\ stage.fetch \in {"none", "called"} => ErrorsFor(cur.url) = 0
       /\ Outcome(stage) # "blocked"
  /\ \A i \in DOMAIN trace :
       trace[i].robots \in {"raised", "unavailable"} =>
         /\ trace[i].url \in Range(fetched)
         /\ trace[i].outcome # "blocked"

\* the robots check of a URL raised, the URL was fetched and processed, and
\* no error was recorded
C14_Witness ==
  /\ cpc = "mark"
  /\ stage.robots = "raised"
  /\ stage.success
  /\ fetched[Len(fetched)] = cur.url
  /\ errors = <<>>

\* ------------------------------------------------------------------------
\* C15: with respect_robots on, the robots check of a URL precedes its
\* fetch; a URL can_fetch answers False for is never passed to the fetcher,
\* does not increment pages_crawled, is still marked visited, and is never
\* popped again.
\* ------------------------------------------------------------------------
C15_RobotsBlocked ==
  /\ respect_robots => (stage.fetch # "none" => stage.robots \notin {"none", "blocked"})
  /\ stage.robots = "blocked" =>
       /\ cpc = "mark"
       /\ ~stage.success
       /\ Disallowed(cur.url)
       /\ cur.url \notin Range(fetched)
  /\ \A i \in Ended_as("blocked") :
       /\ trace[i].url \notin Range(fetched)
       /\ Hash(trace[i].url) \in visited
       /\ PopsOf(trace[i].url) = 1
  /\ \A i \in DOMAIN fetched :
       Disallowed(fetched[i]) =>
         \/ \E j \in DOMAIN trace : trace[j].url = fetched[i] /\ trace[j].robots = "raised"
         \/ (cur.url = fetched[i] /\ stage.robots = "raised")
  /\ pages_crawled + Cardinality(Ended_as("blocked")) <= Len(trace)

\* /b was blocked by robots.txt and marked visited; a later page linked to
\* it again and add_url turned the link down
C15_Witness ==
  /\ Ended_as("blocked") # {}
  /\ cpc = "enqueue"
  /\ last.op = "add_url"
  /\ last.why = "duplicate"
  /\ \E i \in Ended_as("blocked") :
       /\ normalize_url(SitePage(cur.url).internal[1]) = trace[i].url
       /\ Len(stage.links) = Len(SitePage(cur.url).internal) - 1
  /\ fetched = << trace[1].url, cur.url >>

\* ------------------------------------------------------------------------
\* C16: pages_crawled is incremented exactly for the URLs whose fetch, parse
\* and extraction stages all complete; it never exceeds page_limit; once it
\* equals page_limit no URL is popped or fetched; and the loop stops exactly
\* when the counter equals page_limit or the frontier returns empty.
\* ------------------------------------------------------------------------
C16_Counter ==
  /\ pages_crawled = Cardinality(Ended_as("processed"))
  /\ pages_crawled <= page_limit
  /\ stage.success =>
       (stage.fetch = "ok" /\ stage.parse = "ok" /\ stage.extract = "done")
  /\ (cpc = "mark" /\ stage.fetch = "ok" /\ stage.parse = "ok"
        /\ stage.extract = "done") => stage.success
  /\ cpc \in {"done", "reported"} =>
       (pages_crawled = page_limit \/ Unvisited(queue) = {})
  /\ (pages_crawled = page_limit \/ (cpc # "init" /\ cur = NoEntry /\ Unvisited(queue) = {}))
       => cpc \in {"loop", "done", "reported"}

C16_Step ==
  /\ pages_crawled = page_limit => (log' = log /\ fetched' = fetched)
  /\ (cpc = "loop" /\ cpc' # cpc) =>
       (cpc' = "done" <=> (pages_crawled = page_limit \/ Unvisited(queue) = {}))
  /\ pages_crawled' # pages_crawled =>
       (pages_crawled' = pages_crawled + 1 /\ stage.success /\ cpc = "mark")

C16_PageLimit == []C16_Counter /\ [][C16_Step]_vars

\* two pages were processed and the loop stopped at page_limit with an
\* unvisited URL still queued
C16_Witness ==
  /\ cpc = "done"
  /\ pages_crawled = page_limit
  /\ Unvisited(queue) # {}
  /\ Len(trace) = page_limit

\* ------------------------------------------------------------------------
\* C17: every popped URL is marked visited after it was processed, whatever
\* the outcome (processed, robots-blocked, fetch failure, parse error); each
\* normalized URL is passed to fetcher.fetch at most once; a failed URL is
\* never retried.
\* ------------------------------------------------------------------------
C17_VisitedOnce ==
  /\ \A i \in DOMAIN trace :
       /\ trace[i].url \in marked
       /\ Hash(normalize_url(trace[i].url)) \in visited
       /\ PopsOf(trace[i].url) = 1
       /\ cur = NoEntry \/ cur.url # trace[i].url
  /\ \A i, j \in DOMAIN fetched : i # j => fetched[i] # fetched[j]
  /\ \A i, j \in DOMAIN trace : i # j => trace[i].url # trace[j].url
  /\ \A i \in Pops :
       \/ \E j \in DOMAIN trace : trace[j].url = log[i].url
       \/ (cur # NoEntry /\ cur.url = log[i].url)
  /\ \A u \in Range(fetched) : \E i \in Adds : log[i].url = u

\* the second URL failed in the fetch and was marked visited; the third
\* page links back to it and add_url turned the link down
C17_Witness ==
  /\ Len(trace) = 2
  /\ trace[1].outcome = "processed"
  /\ trace[2].outcome = "fetch_failed"
  /\ Hash(normalize_url(trace[2].url)) \in visited
  /\ cpc = "enqueue"
  /\ last.op = "add_url"
  /\ last.why = "duplicate"
  /\ normalize_url(SitePage(cur.url).internal[1]) = trace[2].url
  /\ stage.links = <<>>
  /\ Len(fetched) = 3

C18_Recorded ==
  /\ cpc = "mark" =>
       /\ stage.nerr = IF stage.fetch = "bad" \/ stage.parse = "raised" THEN 1 ELSE 0
       /\ ErrorsFor(cur.url) = stage.nerr
       /\ stage.nerr = 1 => ~stage.success
       /\ (stage.robots # "blocked" /\ stage.nerr = 0) => stage.success
  /\ Len(errors) = Cardinality(Ended_as("fetch_failed")) + Cardinality(Ended_as("parse_failed"))
                     + stage.nerr
  /\ \A i \in DOMAIN trace :
       ErrorsFor(trace[i].url) =
         IF trace[i].outcome \in {"fetch_failed", "parse_failed"} THEN 1 ELSE 0
  /\ cpc = "reported" =>
       /\ generate_report.failed_pages = Cardinality(Ended_as("fetch_failed"))
                                           + Cardinality(Ended_as("parse_failed"))
       /\ generate_report.total_pages <= pages_crawled

C19_Results ==
  (stage.extract # "done" /\ stage'.extract = "done") =>
    LET page  == SitePage(cur.url)
        fails == stage'.fails
        ix    == image_extract(page.images, cur.url, stage'.run, seen_urls, seen_hashes)
    IN  /\ stage'.result.text_data = IF "text" \in fails THEN NoText ELSE page.text
        /\ stage'.result.images = IF "image" \in fails THEN <<>> ELSE ix.records
        /\ stage'.result.internal_links =
             IF "link" \in fails THEN <<>> ELSE page.internal
        /\ stage'.result.external_links =
             IF "link" \in fails THEN <<>> ELSE page.external

C19_Processed ==
  stage.extract = "done" =>
    /\ stage.nerr = 0
    /\ cpc \in {"enqueue", "mark"}
    /\ cpc = "mark" => stage.success

C19_ExtractorIsolation == []C19_Processed /\ [][C19_Results]_vars

\* the text extractor raised on the home page: its image and its links were
\* still extracted, the links were enqueued and the page counts as processed
C19_Witness ==
  /\ cpc = "mark"
  /\ stage.fails = {"text"}
  /\ stage.result.text_data = NoText
  /\ stage.result.images = << ImageRecord("/logo.png", cur.url, "saved") >>
  /\ Len(stage.result.internal_links) = 2
  /\ stage.result.external_links # <<>>
  /\ stage.success
  /\ Len(queue) = 2
  /\ pages = <<>>

\* ------------------------------------------------------------------------
\* C20: normalize_url is idempotent: normalizing a normalized URL returns it
\* unchanged; hence mark_visited(x) on a URL x returned by get_next records
\* the same hash under which x was enqueued.
\* ------------------------------------------------------------------------
C20_Idempotent ==
  /\ \A i \in Adds :
       /\ log[i].url = normalize_url(probe)
       /\ normalize_url(log[i].url) = log[i].url
  /\ \A x \in marked : Hash(x) \in enqueued /\ Hash(x) \in visited

\* ------------------------------------------------------------------------
\* C21: normalize_url removes exactly the query parameters whose key matches
\* a tracking prefix and keeps every other parameter, with its value, in the
\* same relative order as in the input query string, also when a key is
\* repeated (a=1&b=2&a=3): the query of every URL the frontier stores is the
\* input query with the tracking pairs dropped and nothing moved.
\* ------------------------------------------------------------------------
C21_QueryOrder ==
  \A i \in Adds :
    log[i].url.query = SelectSeq(probe.query, LAMBDA kv : ~StripParamsMatch(kv[1]))

\* the absolute URLs the hrefs of the document stand for, in document order
\* (an empty href stands for none)
AbsUrls ==
  LET nonempty == SelectSeq(doc, LAMBDA h : Strip(h).ref # NoUrl)
  IN  [i \in DOMAIN nonempty |-> urljoin(page_url, Strip(nonempty[i]).ref)]

\* the URL is non-http(s), matches a noise pattern or has a skipped extension
Unwanted(u) ==
  \/ u.scheme \notin {"http", "https"}
  \/ SkipPatternsSearch(u)
  \/ get_extension(u.path) \in SkipExtensions

\* position of the first occurrence of u in the document
FirstAt(u) == CHOOSE i \in DOMAIN AbsUrls : AbsUrls[i] = u /\ \A j \in 1 .. i - 1 : AbsUrls[j] # u

\* l lists every URL of S once, in the order of first occurrence
ListsOnce(l, S) ==
  /\ Range(l) = S
  /\ \A i, j \in DOMAIN l : i < j => l[i] # l[j] /\ FirstAt(l[i]) < FirstAt(l[j])

\* ------------------------------------------------------------------------
\* C22: LinkExtractor.extract returns no link that is non-http(s), matches a
\* noise pattern or has a skipped extension, in either list; the internal
\* list holds every remaining distinct URL of an allowed domain and the
\* external list every other remaining distinct URL, each exactly once, in
\* the order of first occurrence in the page.
\* ------------------------------------------------------------------------
C22_LinkFilter ==
  extracted.done =>
    LET wanted == { u \in Range(AbsUrls) : ~Unwanted(u) }
    IN  /\ \A u \in Range(extracted.links.internal) \cup Range(extracted.links.external) :
             ~Unwanted(u)
        /\ ListsOnce(extracted.links.internal, { u \in wanted : link_internal(u) })
        /\ ListsOnce(extracted.links.external, { u \in wanted : ~link_internal(u) })

\* a page with three links was extracted: two hrefs that differ in white
\* space only and a link to a PDF; one internal link came out
C22_Witness ==
  /\ extracted.done
  /\ Len(doc) = 3
  /\ doc[1] # doc[2] /\ Strip(doc[1]) = Strip(doc[2])
  /\ get_extension(doc[3].ref.path) = "pdf"
  /\ Len(extracted.links.internal) = 1
  /\ extracted.links.external = <<>>

\* ------------------------------------------------------------------------
\* C23: the headings list holds every h1-h6 element with non-empty text, in
\* the order the elements appear in the document (an h2 that precedes an h1
\* in the markup precedes it in the list), each tagged with its level.
\* ------------------------------------------------------------------------
C23_DocumentOrder ==
  extracted.done =>
    LET kept == SelectSeq(doc, LAMBDA t : StripText(t.text) # "")
    IN  extracted.headings = [i \in DOMAIN kept |-> Heading(kept[i].level, StripText(kept[i].text))]

\* the URLs whose perceptual hash was looked up (the images that decoded and
\* passed the size filter)
CheckedUrls == { checks[i].url : i \in DOMAIN checks }

\* ------------------------------------------------------------------------
\* C24: image URL deduplication is per page: the image URL list collected
\* for a page holds each distinct non-data: image URL of that page exactly
\* once, whether or not the URL appeared on an earlier page of the job.
\* ------------------------------------------------------------------------
C24_PerPageDedup ==
  extracted.page > 0 =>
    LET srcs == [i \in DOMAIN doc |-> img_src(doc[i])]
    IN  extracted.found = Dedupe(SelectSeq(srcs, LAMBDA u : u \notin {"", "data:"}))

C26_MinImageSize ==
  \A a \in DOMAIN images :
    images[a].image_url \in CheckedUrls =>
      /\ ImageFile(images[a].image_url).w >= config.min_image_size
      /\ ImageFile(images[a].image_url).h >= config.min_image_size

\* ------------------------------------------------------------------------
\* C27: in a job configured with download_images = False the crawl sends no
\* image download request for any page and every image record has an empty
\* image_path.
\* ------------------------------------------------------------------------
C27_NoDownloads ==
  ~config.download_images =>
    /\ downloads = <<>>
    /\ \A a \in DOMAIN images : images[a].image_path = ""

\* the turn of the loop ran as the scenario has it: fetch, parse and every
\* extractor went through and both image downloads delivered an image
ScenarioPass(st) ==
  /\ st.success
  /\ st.fails = {}
  /\ Len(st.run) = 2
  /\ \A i \in DOMAIN st.run : st.run[i].outcome = "decoded"

\* ------------------------------------------------------------------------
\* C28: end to end: seeding https://example.com/ with max_depth = 1 and
\* page_limit = 5, the seed page holding two internal links, one external
\* link and two images (one below the minimum dimension): after the first
\* turn of the loop exactly one page record exists, for the seed URL, the
\* seed is marked visited, the image record list has length 1, the
\* external-link count of the report is 1 and both internal links are
\* queued at depth 1.
\* ------------------------------------------------------------------------
C28_FirstPass ==
  (cpc = "mark" /\ trace = <<>> /\ cpc' = "loop" /\ ScenarioPass(stage)) =>
    LET page == SitePage(start_url)
    IN  /\ pages' = << [url |-> start_url, text |-> page.text] >>
        /\ pages_crawled' = 1
        /\ Hash(start_url) \in visited'
        /\ Len(images') = 1
        /\ generate_report'.total_images = 1
        /\ generate_report'.external_links = 1
        /\ Len(queue') = 2
        /\ { queue'[i] : i \in DOMAIN queue' } =
             { QueueEntry(1, page.internal[1]), QueueEntry(1, page.internal[2]) }

C28_EndToEnd == [][C28_FirstPass]_vars

\* the first turn of the loop is over: the seed page was processed, the
\* larger of its two images kept and its two internal links queued
C28_Witness ==
  /\ config = E2EConfig
  /\ cpc = "loop"
  /\ Len(trace) = 1
  /\ trace[1].outcome = "processed"
  /\ pages = << [url |-> start_url, text |-> "Home"] >>
  /\ images = << ImageRecord("/logo.png", start_url, "saved") >>
  /\ checks = << [url |-> "/logo.png", kept |-> TRUE] >>
  /\ Len(downloads) = 2
  /\ Len(external_links) = 1
  /\ Len(queue) = 2
  /\ Hash(start_url) \in visited

\* the decisions of job j in world w that kept an image
KeptImages(w, j) ==
  { w.log[j][i].records[1].image_url :
      i \in { k \in DOMAIN w.log[j] : w.log[j][k].op = "extract" /\ w.log[j][k].records # <<>> } }

C30_GlobalSpacing ==
  \A i, k \in DOMAIN starts : i < k => starts[k] - starts[i] >= rate_limit

\* the tasks whose request, static or dynamic, is under way
Dispatched == { t \in DOMAIN pc : pc[t] \in {"in_get", "dynamic"} }

\* the step in which a task starts its dynamic re-fetch
C31_DynamicStart ==
  \A t \in DOMAIN pc :
    (pc[t] # "dynamic" /\ pc'[t] = "dynamic") =>
      /\ Dispatched \ {t} = {}
      /\ now' - starts[Len(starts)] >= rate_limit

\* C31: the dynamic re-fetch of a page is dispatched like a static fetch: it
\* does not start, or run, while another request of the same PageFetcher is
\* under way, and it starts at least rate_limit after the start of the
\* dispatch before it, the static fetch of the same URL
C31_DynamicPolite ==
  /\ [](\A t \in DOMAIN pc : pc[t] = "dynamic" => Dispatched = {t})
  /\ [][C31_DynamicStart]_vars

\* C32: when attempt k of _fetch_with_retries raises, the fetcher waits
\* min(2^k, 30) before attempt k+1, and it waits only if an attempt follows:
\* with every attempt failing there are max_retries waits, none after the
\* last attempt
C32_WaitStep ==
  \A t \in DOMAIN pc :
    (pc[t] # "backoff" /\ pc'[t] = "backoff") =>
      /\ wake'[t] = now + backoff(attempt[t])
      /\ attempt[t] < max_retries

C32_BackoffSchedule ==
  /\ [][C32_WaitStep]_vars
  /\ [](\A t \in DOMAIN pc :
          (returned[t].status_code = 0 /\ returned[t].error # NoError) =>
            Len(raised[t]) = max_retries)

\* the pages whose links the loop has started to enqueue: URL and depth
ParentPages ==
  { [url |-> trace[i].url,
     depth |-> log[CHOOSE k \in Adds : log[k].url = trace[i].url].depth] :
      i \in { n \in DOMAIN trace : trace[n].outcome = "processed" } }
    \cup (IF cpc \in {"enqueue", "mark"} THEN {[url |-> cur.url, depth |-> cur.depth]} ELSE {})

\* one turn of the loop over the internal links of the current page
C33_OfferStep ==
  /\ (cpc = "fetching" /\ cpc' = "enqueue") =>
       stage'.links = IF "link" \in stage'.fails THEN <<>> ELSE SitePage(cur.url).internal
  /\ (cpc = "enqueue" /\ stage.links # <<>>) =>
       LET link == Head(stage.links)
       IN  /\ link \in Range(SitePage(cur.url).internal)
           /\ link \notin Range(SitePage(cur.url).external)
           /\ last'.op = "add_url" /\ last'.why # "domain"
           /\ stage'.links = Tail(stage.links)
           /\ last'.ret =>
                log' = Append(log, [op |-> "add", url |-> normalize_url(link),
                                    depth |-> cur.depth + 1])
           /\ cur.depth = max_depth => (~last'.ret /\ queue' = queue)
  /\ (cpc = "enqueue" /\ cpc' = "mark") => stage.links = <<>>

\* what the frontier accepted so far
C33_Discovered ==
  /\ \A i \in Adds :
       /\ log[i].depth <= max_depth
       /\ log[i].depth = 0 => (i = 1 /\ log[i].url = normalize_url(start_url))
       /\ log[i].depth > 0 =>
            \E p \in ParentPages :
              /\ p.depth = log[i].depth - 1
              /\ \E l \in Range(SitePage(p.url).internal) : normalize_url(l) = log[i].url
  /\ \A i \in DOMAIN fetched : \E k \in Adds : log[k].url = fetched[i]

\* C33: every internal link found on a page processed at depth k is offered
\* to the frontier at depth k + 1, in the order found, and the frontier alone
\* caps the depth: every URL accepted or fetched at depth k > 0 is a link of
\* a page processed at depth k - 1, only the seed is at depth 0, the links of
\* a page at depth max_depth are offered and refused, and no external link
\* is offered
C33_ChildDepth == []C33_Discovered /\ [][C33_OfferStep]_vars

\* the seed's two links were accepted at depth 1, one of them was processed
\* at depth max_depth and its link has just been refused for its depth; the
\* seed's external link was recorded, not offered
C33_Witness ==
  /\ cpc = "enqueue"
  /\ cur.depth = max_depth
  /\ last.op = "add_url" /\ last.why = "depth"
  /\ stage.links = <<>>
  /\ Cardinality(Adds) = 3
  /\ Len(external_links) = 1
  /\ Len(fetched) = 2

\* the step of a delete_job call
C34_DeleteStep ==
  \A id \in ApiJobIds :
    (id \in DOMAIN registry /\ id \notin DOMAIN registry') =>
      registry[id].status \in {COMPLETED, FAILED}

\* C34: delete_job removes only jobs that are COMPLETED or FAILED, so for
\* any interleaving of submits, deletes and background-task steps the entry
\* of a submitted job is in the registry as long as its background task has
\* not finished: the task finds it when it starts and when it finishes
C34_DeleteOnlyEnded ==
  /\ [][C34_DeleteStep]_vars
  /\ [](\A id \in ApiJobIds :
          /\ btask[id] \in {"scheduled", "crawl"} => id \in DOMAIN registry
          /\ btask[id] # "raised")


\* what _run_crawl leaves in the entry
C35_Entry ==
  \A id \in DOMAIN registry :
    LET job == registry[id]
    IN  /\ job.status \in {QUEUED, RUNNING, COMPLETED, FAILED}
        /\ job.completed_at # None <=> job.status \in {COMPLETED, FAILED}
        /\ job.report # None => job.status = COMPLETED
        /\ job.error # None => job.status = FAILED

\* the moves of a status
C35_Step ==
  \A id \in DOMAIN registry \cap DOMAIN registry' :
    LET old == registry[id].status
        new == registry'[id].status
    IN  \/ new = old /\ registry'[id] = registry[id]
        \/ old = QUEUED /\ new = RUNNING
        \/ old = RUNNING /\ new \in {COMPLETED, FAILED}

\* C35: a job's status only moves QUEUED -> RUNNING -> COMPLETED or FAILED,
\* the last two are final, completed_at is set exactly in them, report only
\* in COMPLETED and error only in FAILED, and every job whose background
\* task starts gets to COMPLETED or FAILED once its crawl has ended or raised
C35_StatusMachine ==
  /\ []C35_Entry
  /\ [][C35_Step]_vars
  /\ \A id \in ApiJobIds :
       (btask[id] \in {"crawl", "done", "raised"}) ~>
         (id \in DOMAIN registry /\ registry[id].status \in {COMPLETED, FAILED})

\* one call of the frontier, told by what it left in last
C36_CallStep ==
  nops' # nops =>
    /\ last'.op = "get_next" => (visited' = visited /\ enqueued' = enqueued)
    /\ last'.op = "mark_visited" => (queue' = queue /\ enqueued' = enqueued)
    /\ last'.op = "add_url" =>
         /\ visited' = visited
         /\ ~last'.ret => (queue' = queue /\ enqueued' = enqueued)
         /\ last'.ret => (Len(queue') = Len(queue) + 1 /\ enqueued \subseteq enqueued')
    /\ visited \subseteq visited'
    /\ enqueued \subseteq enqueued'

\* C36: get_next changes only the queue, mark_visited only visited, add_url
\* never visited; an add_url that returns False, whatever the reason, changes
\* neither queue nor enqueued nor visited; visited and enqueued never shrink
C36_FrameEffects == [][C36_CallStep]_vars

\* add_url has just refused a URL as a duplicate while URLs were queued,
\* after a URL was handed out and marked visited
C36_Witness ==
  /\ last.op = "add_url" /\ ~last.ret /\ last.why = "duplicate"
  /\ queue # <<>>
  /\ visited # {}
  /\ Pops # {}

\* turns of the loop that took a URL from the frontier
Iterations == Len(trace) + (IF cur # NoEntry THEN 1 ELSE 0)

\* what bounds the loop
C37_Bound ==
  /\ \A i, k \in Adds : i # k => log[i].url # log[k].url
  /\ Iterations <= Cardinality(Adds)
  /\ Iterations + Len(queue) <= Cardinality(Adds)

\* a turn of the loop takes at least one entry off the queue
C37_Consume ==
  (cpc = "loop" /\ cpc' = "robots") =>
    /\ Len(queue') < Len(queue)
    /\ Len(trace) < Cardinality(Adds)

\* C37: on a finite site the crawl loop ends whatever succeeds or fails:
\* every turn takes at least one entry off the queue, every normalized URL
\* is pushed at most once, and there are at most as many turns as distinct
\* accepted URLs
C37_Termination ==
  /\ []C37_Bound
  /\ [][C37_Consume]_vars
  /\ <>[](cpc \in {"done", "reported"})

\* the loop ended because the frontier was exhausted, after one turn per
\* accepted URL, one of which failed
C37_Witness ==
  /\ cpc = "done"
  /\ queue = <<>>
  /\ pages_crawled < page_limit
  /\ Len(trace) = Cardinality(Adds)
  /\ Len(trace) = 3
  /\ \E i \in DOMAIN trace : trace[i].outcome = "fetch_failed"

\* number of page records stored for URL u
PagesFor(u) == Cardinality({ i \in DOMAIN pages : pages[i].url = u })

\* C38: every processed URL leaves at most one page record (success), or
\* exactly one error entry (fetch or parse failure), or nothing (blocked by
\* robots), never a record and an error; so between two turns of the loop
\* visited_count = pages_crawled + error entries + robots-blocked URLs, and
\* total_pages <= pages_crawled <= page_limit
C38_Accounting ==
  /\ \A i \in DOMAIN trace :
       LET u == trace[i].url
       IN  /\ PagesFor(u) <= 1
           /\ ErrorsFor(u) <= 1
           /\ PagesFor(u) + ErrorsFor(u) <= 1
           /\ trace[i].outcome = "processed" => ErrorsFor(u) = 0
           /\ trace[i].outcome \in {"fetch_failed", "parse_failed"} =>
                (ErrorsFor(u) = 1 /\ PagesFor(u) = 0)
           /\ trace[i].outcome = "blocked" => (ErrorsFor(u) = 0 /\ PagesFor(u) = 0)
  /\ cpc \in {"loop", "done", "reported"} =>
       /\ Cardinality(visited) =
            pages_crawled + Len(errors) + Cardinality(Ended_as("blocked"))
       /\ generate_report.total_pages <= pages_crawled
       /\ pages_crawled <= page_limit

\* C39: in a crawl job, where the seed is added at depth 0 and every other
\* URL at the depth of the page it was found on plus one, the loop takes
\* URLs from the frontier in non-decreasing depth: a URL at depth n is
\* processed before any URL at depth n + 1
C39_BreadthFirst ==
  \A i, k \in Pops : i < k => log[i].depth <= log[k].depth

\* /r3 was found at depth 2 on /r1 while /r2, at depth 1, was still queued;
\* /r2 was processed before /r3
C39_Witness ==
  /\ Len(trace) = 4
  /\ \A i \in DOMAIN trace : trace[i].outcome = "processed"
  /\ trace[2].url.path = <<"/", "r1">>
  /\ trace[3].url.path = <<"/", "r2">>
  /\ trace[4].url.path = <<"/", "r3">>
  /\ \E i \in Pops : log[i].depth = 2

====
